---- MODULE Spec2Model ----
(***************************************************************************)
(* agentrig: the template document parser (src/src/templates.mjs), the     *)
(* template builder (src/src/template-generator.mjs), the feedback         *)
(* aggregation (src/src/feedback.mjs) and the quality tier engine          *)
(* (src/unnamed/part_001).                                                 *)
(*                                                                         *)
(* Text is a sequence of one-character strings; "\n" is the line break.    *)
(* Every function of the source is an operator computed the way the source *)
(* computes it; every exported or internal operation is an action that     *)
(* draws its input from a bounded set and records the call in              *)
(* (op, arg, res).                                                         *)
(***************************************************************************)
EXTENDS Integers, Sequences, FiniteSets, TLC

\* op, arg: the operation called and its argument; res: what it returned;
\* pc: "call" before the call is made, "done" after it returned; input: what
\* the argument was put together from (lines, rows, a template value).
VARIABLES op, input, arg, res, pc

vars == <<op, input, arg, res, pc>>

(***************************************************************************)
(* Evaluation order: a statement of the code computes its value once and   *)
(* the statements after it read the value. Apply(f, v) is f(v) with v       *)
(* computed before f reads it; Apply2 does the same for two values.        *)
(***************************************************************************)

Apply(f(_), v) == CHOOSE r \in {f(x) : x \in {v}} : TRUE

Apply2(f(_, _), v, w) == CHOOSE r \in {f(x, y) : x \in {v}, y \in {w}} : TRUE

(***************************************************************************)
(* JavaScript string primitives                                            *)
(***************************************************************************)

NL == "\n"

\* String.prototype.trim's white space, as far as the inputs hold any.
IsSpace(c) == c \in {" ", NL, "\t"}

TrimStart(s) ==
  IF \A i \in 1..Len(s) : IsSpace(s[i]) THEN <<>>
  ELSE SubSeq(s, CHOOSE i \in 1..Len(s) :
                   ~IsSpace(s[i]) /\ \A j \in 1..(i - 1) : IsSpace(s[j]),
              Len(s))

TrimEnd(s) ==
  IF \A i \in 1..Len(s) : IsSpace(s[i]) THEN <<>>
  ELSE SubSeq(s, 1, CHOOSE i \in 1..Len(s) :
                      ~IsSpace(s[i]) /\ \A j \in (i + 1)..Len(s) : IsSpace(s[j]))

Trim(s) == TrimEnd(TrimStart(s))

StartsWith(s, p) == Len(s) >= Len(p) /\ SubSeq(s, 1, Len(p)) = p

EndsWith(s, p) == Len(s) >= Len(p) /\ SubSeq(s, Len(s) - Len(p) + 1, Len(s)) = p

\* s.slice(n) for 0 <= n
SliceFrom(s, n) == IF n >= Len(s) THEN <<>> ELSE SubSeq(s, n + 1, Len(s))

\* s.slice(a, b) for 0 <= a, 0 <= b
Slice(s, a, b) ==
  LET e == IF b > Len(s) THEN Len(s) ELSE b
  IN IF a >= e THEN <<>> ELSE SubSeq(s, a + 1, e)

\* s.indexOf(c) for a one-character c: 0-based, -1 when absent
IndexFrom(s, c, i) ==
  IF \A j \in i..Len(s) : s[j] # c THEN -1
  ELSE (CHOOSE j \in i..Len(s) : s[j] = c /\ \A k \in i..(j - 1) : s[k] # c) - 1

IndexOf(s, c) == IndexFrom(s, c, 1)

Includes(s, c) == \E i \in 1..Len(s) : s[i] = c

UpperChars == <<"A","B","C","D","E","F","G","H","I","J","K","L","M",
                "N","O","P","Q","R","S","T","U","V","W","X","Y","Z">>

LowerChars == <<"a","b","c","d","e","f","g","h","i","j","k","l","m",
                "n","o","p","q","r","s","t","u","v","w","x","y","z">>

LowerChar(c) ==
  IF \E i \in 1..Len(UpperChars) : UpperChars[i] = c
  THEN LowerChars[CHOOSE i \in 1..Len(UpperChars) : UpperChars[i] = c]
  ELSE c

ToLowerCase(s) == [i \in 1..Len(s) |-> LowerChar(s[i])]

\* s.split(sep) for a one-character sep: always at least one piece
RECURSIVE SplitAcc(_, _, _)
SplitAcc(s, sep, i) ==
  Apply(LAMBDA j : IF j = -1 THEN << SubSeq(s, i, Len(s)) >>
                   ELSE << SubSeq(s, i, j) >> \o SplitAcc(s, sep, j + 2),
        IndexFrom(s, sep, i))

Split(s, sep) == Apply(LAMBDA text : SplitAcc(text, sep, 1), s)

\* parts.join(sep) for a one-character sep
RECURSIVE Join(_, _)
Join(parts, sep) ==
  IF parts = <<>> THEN <<>>
  ELSE IF Len(parts) = 1 THEN parts[1]
  ELSE parts[1] \o <<sep>> \o Join(Tail(parts), sep)

IsDigit(c) == c \in {"0","1","2","3","4","5","6","7","8","9"}

IsQuote(c) == c \in {"\"", "'"}

\* value.replace(/^["']|["']$/g, ""): the alternatives are tried from the
\* left, so a leading quote is removed, and then a quote that ends the
\* string at a later position.
StripQuotes(s) ==
  LET headCut == Len(s) >= 1 /\ IsQuote(s[1])
      tailCut == Len(s) >= 2 /\ IsQuote(s[Len(s)])
      a == IF headCut THEN 2 ELSE 1
      b == IF tailCut THEN Len(s) - 1 ELSE Len(s)
  IN IF a > b THEN <<>> ELSE SubSeq(s, a, b)

(***************************************************************************)
(* JavaScript objects: the entries in insertion order, each key once.      *)
(* Values are tagged pairs <<tag, payload>>, tag "str" | "int" | "list" |   *)
(* "obj": the tag comes first, so two values of different kinds differ at  *)
(* the tag.                                                                *)
(***************************************************************************)

EmptyObj == <<>>

ObjHas(o, k) == \E i \in 1..Len(o) : o[i].k = k

ObjGet(o, k) == o[CHOOSE i \in 1..Len(o) : o[i].k = k].v

\* o[k] = v: an existing key keeps its place, a new key is added last.
ObjPut(o, k, v) ==
  IF ObjHas(o, k)
  THEN [i \in 1..Len(o) |-> IF o[i].k = k THEN [k |-> k, v |-> v] ELSE o[i]]
  ELSE Append(o, [k |-> k, v |-> v])

ObjKeys(o) == [i \in 1..Len(o) |-> o[i].k]

Tag(x) == x[1]

Val(x) == x[2]

StrV(s) == <<"str", s>>

IntV(digits) == <<"int", digits>>

ListV(items) == <<"list", items>>

ObjV(o) == <<"obj", o>>

(***************************************************************************)
(* Frontmatter (src/src/templates.mjs)                                     *)
(***************************************************************************)

Delim == <<"-", "-", "-">>

\* The first i >= from with Trim(lines[i]) = "---", 0 when there is none
\* (the loop of lines 121-126, 1-based).
RECURSIVE FindDelim(_, _)
FindDelim(lines, from) ==
  IF from > Len(lines) THEN 0
  ELSE IF Trim(lines[from]) = Delim THEN from
  ELSE FindDelim(lines, from + 1)

\* A slip: the opening delimiter looked for on every line, not on the first.
extractFrontmatterLateDelim(content) ==
  Apply(LAMBDA lines :
          LET startIndex == FindDelim(lines, 1)
              endIndex == IF startIndex = 0 THEN 0 ELSE FindDelim(lines, startIndex + 1)
          IN IF endIndex = 0 THEN [frontmatter |-> <<>>, body |-> content]
             ELSE [frontmatter |-> Join(SubSeq(lines, startIndex + 1, endIndex - 1), NL),
                   body |-> Join(SubSeq(lines, endIndex + 1, Len(lines)), NL)],
        Split(content, NL))

extractFrontmatter(content) ==
  Apply(LAMBDA lines :
          LET endIndex == FindDelim(lines, 2)
          IN IF Trim(lines[1]) # Delim THEN [frontmatter |-> <<>>, body |-> content]
             ELSE IF endIndex = 0 THEN [frontmatter |-> <<>>, body |-> content]
             ELSE [frontmatter |-> Join(SubSeq(lines, 2, endIndex - 1), NL),
                   body |-> Join(SubSeq(lines, endIndex + 1, Len(lines)), NL)],
        Split(content, NL))

\* parseInt(digits, 10), kept as its decimal digits: leading zeros dropped.
RECURSIVE DropZeros(_)
DropZeros(d) ==
  IF Len(d) > 1 /\ d[1] = "0" THEN DropZeros(Tail(d)) ELSE d

AllDigits(s) == s # <<>> /\ \A i \in 1..Len(s) : IsDigit(s[i])

parseScalar(value) ==
  LET stripped == StripQuotes(value)
  IN IF AllDigits(stripped) THEN IntV(DropZeros(stripped)) ELSE StrV(stripped)

\* The scan state of parseFrontmatter. A key that is null and a key that is
\* the empty string are both <<>>: the source reads parentKey and childKey
\* only behind a truthiness test, which takes the two alike. threw: the
\* scan ended in a TypeError.
FmStart ==
  [result |-> EmptyObj, parentKey |-> <<>>, parentIndent |-> -1,
   childKey |-> <<>>, childIndent |-> -1, threw |-> FALSE]

ItemMark == <<"-", " ">>

EmptyList == <<"[", "]">>

\* A slip: a top-level key leaves the child key as it was.
FmTopLevelKeepsChild(st, trimmed, indent) ==
  LET colonIdx == IndexOf(trimmed, ":")
      key == Trim(Slice(trimmed, 0, colonIdx))
      value == Trim(SliceFrom(trimmed, colonIdx + 1))
      st0 == [st EXCEPT !.parentKey = <<>>]
  IN IF value # <<>> /\ value # EmptyList
     THEN [st0 EXCEPT !.result = ObjPut(st.result, key, parseScalar(value))]
     ELSE IF value = EmptyList
     THEN [st0 EXCEPT !.result = ObjPut(st.result, key, ListV(<<>>))]
     ELSE [st0 EXCEPT !.result = ObjPut(st.result, key, ObjV(EmptyObj)),
                      !.parentKey = key, !.parentIndent = indent]

\* Lines 164-181: a line at indent 0 that holds a colon.
FmTopLevel(st, trimmed, indent) ==
  LET colonIdx == IndexOf(trimmed, ":")
      key == Trim(Slice(trimmed, 0, colonIdx))
      value == Trim(SliceFrom(trimmed, colonIdx + 1))
      st0 == [st EXCEPT !.parentKey = <<>>, !.childKey = <<>>]
  IN IF value # <<>> /\ value # EmptyList
     THEN [st0 EXCEPT !.result = ObjPut(st.result, key, parseScalar(value))]
     ELSE IF value = EmptyList
     THEN [st0 EXCEPT !.result = ObjPut(st.result, key, ListV(<<>>))]
     ELSE [st0 EXCEPT !.result = ObjPut(st.result, key, ObjV(EmptyObj)),
                      !.parentKey = key, !.parentIndent = indent]

\* Lines 200-207: result[parentKey] becomes a list if it is none, and takes
\* the item.
FmParentItem(st, trimmed) ==
  LET item == StripQuotes(Trim(SliceFrom(trimmed, 2)))
      cur == ObjGet(st.result, st.parentKey)
      base == IF Tag(cur) = "list" THEN Val(cur) ELSE <<>>
  IN [st EXCEPT !.result = ObjPut(st.result, st.parentKey, ListV(Append(base, item)))]

\* Lines 210-228: result[parentKey] becomes an object if it is none, and
\* takes the nested key.
FmNestedKey(st, trimmed, indent) ==
  LET cur == ObjGet(st.result, st.parentKey)
      base == IF Tag(cur) = "obj" THEN Val(cur) ELSE EmptyObj
      colonIdx == IndexOf(trimmed, ":")
      nestedKey == Trim(Slice(trimmed, 0, colonIdx))
      nestedValue == Trim(SliceFrom(trimmed, colonIdx + 1))
  IN IF nestedValue # <<>> /\ nestedValue # EmptyList
     THEN [st EXCEPT !.result = ObjPut(st.result, st.parentKey,
                                   ObjV(ObjPut(base, nestedKey, parseScalar(nestedValue)))),
                     !.childKey = <<>>]
     ELSE [st EXCEPT !.result = ObjPut(st.result, st.parentKey,
                                   ObjV(ObjPut(base, nestedKey, ListV(<<>>)))),
                     !.childKey = nestedKey, !.childIndent = indent]

\* A slip: the item is pushed as written, its quotes kept.
FmChildItemKeepsQuotes(st, trimmed) ==
  LET item == Trim(SliceFrom(trimmed, 2))
      cur == ObjGet(st.result, st.parentKey)
  IN IF Tag(cur) = "obj" /\ ObjHas(Val(cur), st.childKey)
        /\ Tag(ObjGet(Val(cur), st.childKey)) = "list"
     THEN [st EXCEPT !.result = ObjPut(st.result, st.parentKey,
             ObjV(ObjPut(Val(cur), st.childKey,
                         ListV(Append(Val(ObjGet(Val(cur), st.childKey)), item)))))]
     ELSE [st EXCEPT !.threw = TRUE]

\* Lines 187-191: result[parentKey][childKey].push(item), a TypeError when
\* result[parentKey][childKey] is no list.
FmChildItem(st, trimmed) ==
  LET item == StripQuotes(Trim(SliceFrom(trimmed, 2)))
      cur == ObjGet(st.result, st.parentKey)
  IN IF Tag(cur) = "obj" /\ ObjHas(Val(cur), st.childKey)
        /\ Tag(ObjGet(Val(cur), st.childKey)) = "list"
     THEN [st EXCEPT !.result = ObjPut(st.result, st.parentKey,
             ObjV(ObjPut(Val(cur), st.childKey,
                         ListV(Append(Val(ObjGet(Val(cur), st.childKey)), item)))))]
     ELSE [st EXCEPT !.threw = TRUE]

\* A slip: the child key's scope is never closed.
FmCloseChildNever(st, indent) == st

\* Lines 195-197.
FmCloseChild(st, indent) ==
  IF st.childKey # <<>> /\ indent <= st.childIndent
  THEN [st EXCEPT !.childKey = <<>>]
  ELSE st

\* Lines 184-229: a line under an open parent key.
FmIndented(st, trimmed, indent) ==
  IF st.childKey # <<>> /\ indent > st.childIndent /\ StartsWith(trimmed, ItemMark)
  THEN FmChildItem(st, trimmed)
  ELSE LET st1 == FmCloseChild(st, indent)
       IN IF StartsWith(trimmed, ItemMark) THEN FmParentItem(st1, trimmed)
          ELSE IF Includes(trimmed, ":") THEN FmNestedKey(st1, trimmed, indent)
          ELSE st1

\* One turn of the loop of lines 157-230.
FmLine(st, line) ==
  LET trimmed == Trim(line)
      indent == Len(line) - Len(TrimStart(line))
  IN IF st.threw THEN st
     ELSE IF trimmed = <<>> \/ StartsWith(trimmed, <<"#">>) THEN st
     ELSE IF indent = 0 /\ Includes(trimmed, ":") THEN FmTopLevel(st, trimmed, indent)
     ELSE IF st.parentKey # <<>> /\ indent > st.parentIndent
          THEN FmIndented(st, trimmed, indent)
     ELSE st

RECURSIVE FmScan(_, _, _)
FmScan(st, lines, i) ==
  IF i > Len(lines) THEN st
  ELSE Apply(LAMBDA next : FmScan(next, lines, i + 1), FmLine(st, lines[i]))

\* The scan state parseFrontmatter ends in: .result is what it returns,
\* .threw that it threw instead.
parseFrontmatter(yaml) ==
  IF Trim(yaml) = <<>> THEN FmStart
  ELSE Apply(LAMBDA lines : FmScan(FmStart, lines, 1), Split(yaml, NL))

(***************************************************************************)
(* JSON.parse and JSON.stringify(value, null, 2), for the JSON made of     *)
(* objects, arrays, strings without escapes, non-negative integers and     *)
(* true / false / null. A JSON value is a tagged pair: "obj" (entries in   *)
(* order), "arr", "str", "num" (its digits), "lit" (its text).             *)
(***************************************************************************)

JObj(o) == <<"obj", o>>

JArr(a) == <<"arr", a>>

JStr(x) == <<"str", x>>

JNum(d) == <<"num", d>>

JLit(x) == <<"lit", x>>

JsonNull == <<"n", "u", "l", "l">>

JsonTrue == <<"t", "r", "u", "e">>

JsonFalse == <<"f", "a", "l", "s", "e">>

JsonWs(c) == c \in {" ", NL, "\t", "\r"}

RECURSIVE JsonSkip(_, _)
JsonSkip(s, i) ==
  IF i <= Len(s) /\ JsonWs(s[i]) THEN JsonSkip(s, i + 1) ELSE i

JsonFail == [ok |-> FALSE, pos |-> 0, val |-> JLit(JsonNull)]

JsonOk(pos, val) == [ok |-> TRUE, pos |-> pos, val |-> val]

\* A string opening at s[i]: up to the next quote, no control character and
\* no backslash between.
JsonString(s, i) ==
  LET rest == SliceFrom(s, i)
      close == IndexOf(rest, "\"")
      body == Slice(rest, 0, close)
  IN IF close < 0 THEN JsonFail
     ELSE IF \E j \in 1..Len(body) : body[j] \in {NL, "\t", "\r", "\\"} THEN JsonFail
     ELSE JsonOk(i + close + 2, JStr(body))

RECURSIVE DigitsEnd(_, _)
DigitsEnd(s, i) ==
  IF i <= Len(s) /\ IsDigit(s[i]) THEN DigitsEnd(s, i + 1) ELSE i

\* A number opening at the digit s[i]: 0, or a digit 1-9 and more digits.
JsonNumber(s, i) ==
  IF s[i] = "0" THEN JsonOk(i + 1, JNum(<<"0">>))
  ELSE LET e == DigitsEnd(s, i) IN JsonOk(e, JNum(SubSeq(s, i, e - 1)))

JsonLiteral(s, i) ==
  LET rest == SliceFrom(s, i - 1)
  IN IF StartsWith(rest, JsonNull) THEN JsonOk(i + 4, JLit(JsonNull))
     ELSE IF StartsWith(rest, JsonTrue) THEN JsonOk(i + 4, JLit(JsonTrue))
     ELSE IF StartsWith(rest, JsonFalse) THEN JsonOk(i + 5, JLit(JsonFalse))
     ELSE JsonFail

RECURSIVE JsonValue(_, _)
RECURSIVE JsonMembers(_, _, _)
RECURSIVE JsonElements(_, _, _)

\* The value that opens at or after s[i0]. Each step of the parser binds
\* what it has computed before it goes on, the text with it.
JsonValue(s, i0) ==
  CHOOSE r \in
    { CASE c.i > Len(c.s) -> JsonFail
        [] c.s[c.i] = "\"" -> JsonString(c.s, c.i)
        [] c.s[c.i] = "{" -> JsonMembers(c.s, JsonSkip(c.s, c.i + 1), EmptyObj)
        [] c.s[c.i] = "[" -> JsonElements(c.s, JsonSkip(c.s, c.i + 1), <<>>)
        [] IsDigit(c.s[c.i]) -> JsonNumber(c.s, c.i)
        [] OTHER -> JsonLiteral(c.s, c.i)
      : c \in {[s |-> s, i |-> JsonSkip(s, i0)]} } : TRUE

JsonStep(s, ok, last, pos, acc) ==
  [s |-> s, ok |-> ok, last |-> last, pos |-> pos, acc |-> acc]

\* The place of the colon after the key that opens at s[i].
ColonAt(s, i) == JsonSkip(s, JsonString(s, i).pos)

\* What follows the value v of a member or an element, acc being the
\* members or elements up to it: the closing character, or a comma and
\* the place of the next one.
JsonAfter(s, v, acc, closing) ==
  CHOOSE r \in
    { CASE n > Len(s) -> JsonStep(s, FALSE, FALSE, 0, acc)
        [] s[n] = closing -> JsonStep(s, TRUE, TRUE, n + 1, acc)
        [] s[n] = "," -> JsonStep(s, TRUE, FALSE, JsonSkip(s, n + 1), acc)
        [] OTHER -> JsonStep(s, FALSE, FALSE, 0, acc)
      : n \in {JsonSkip(s, v.pos)} } : TRUE

\* The member whose key opens at s[i], put into acc: .last where the
\* closing brace follows it, .pos the place after the brace or of the next
\* key. A brace at s[i] closes an object that has no member yet.
JsonMember(s, i, acc) ==
  CASE i <= Len(s) /\ s[i] = "}" /\ acc = EmptyObj -> JsonStep(s, TRUE, TRUE, i + 1, acc)
    [] i > Len(s) \/ s[i] # "\"" -> JsonStep(s, FALSE, FALSE, 0, acc)
    [] ~JsonString(s, i).ok -> JsonStep(s, FALSE, FALSE, 0, acc)
    [] ColonAt(s, i) > Len(s) \/ s[ColonAt(s, i)] # ":" -> JsonStep(s, FALSE, FALSE, 0, acc)
    [] OTHER ->
         CHOOSE r \in
           { IF ~v.ok THEN JsonStep(s, FALSE, FALSE, 0, acc)
             ELSE JsonAfter(s, v, ObjPut(acc, Val(JsonString(s, i).val), v.val), "}")
             : v \in {JsonValue(s, ColonAt(s, i) + 1)} } : TRUE

\* The members of an object from the key at s[i] to the closing brace.
JsonMembers(s, i, acc) ==
  CHOOSE r \in
    { CASE ~st.ok -> JsonFail
        [] st.last -> JsonOk(st.pos, JObj(st.acc))
        [] OTHER -> JsonMembers(st.s, st.pos, st.acc)
      : st \in {JsonMember(s, i, acc)} } : TRUE

\* The element at s[i], appended to acc: .last where the closing bracket
\* follows it, .pos the place of the next element. A bracket at s[i]
\* closes an array that has no element yet.
JsonElement(s, i, acc) ==
  CASE i <= Len(s) /\ s[i] = "]" /\ acc = <<>> -> JsonStep(s, TRUE, TRUE, i + 1, acc)
    [] OTHER ->
         CHOOSE r \in
           { IF ~v.ok THEN JsonStep(s, FALSE, FALSE, 0, acc)
             ELSE JsonAfter(s, v, Append(acc, v.val), "]")
             : v \in {JsonValue(s, i)} } : TRUE

\* The elements of an array from the value at s[i] to the closing bracket.
JsonElements(s, i, acc) ==
  CHOOSE r \in
    { CASE ~st.ok -> JsonFail
        [] st.last -> JsonOk(st.pos, JArr(st.acc))
        [] OTHER -> JsonElements(st.s, st.pos, st.acc)
      : st \in {JsonElement(s, i, acc)} } : TRUE

\* JSON.parse(text): .ok is FALSE where it throws a SyntaxError.
JsonParse(text) ==
  CHOOSE p \in
    { IF r.ok /\ JsonSkip(text, r.pos) > Len(text)
      THEN [ok |-> TRUE, val |-> r.val]
      ELSE [ok |-> FALSE, val |-> JLit(JsonNull)]
      : r \in {JsonValue(text, 1)} } : TRUE

RECURSIVE JsonStringify(_, _)
RECURSIVE JsonMemberLines(_, _, _)
RECURSIVE JsonElementLines(_, _, _)

\* JSON.stringify(v, null, 2) at indentation ind.
JsonStringify(v, ind) ==
  LET ind2 == ind \o <<" ", " ">>
  IN CASE Tag(v) = "str" -> <<"\"">> \o Val(v) \o <<"\"">>
       [] Tag(v) = "num" -> Val(v)
       [] Tag(v) = "lit" -> Val(v)
       [] Tag(v) = "arr" ->
            IF Val(v) = <<>> THEN <<"[", "]">>
            ELSE <<"[", NL>> \o JsonElementLines(Val(v), 1, ind2) \o <<NL>> \o ind \o <<"]">>
       [] Tag(v) = "obj" ->
            IF Val(v) = <<>> THEN <<"{", "}">>
            ELSE <<"{", NL>> \o JsonMemberLines(Val(v), 1, ind2) \o <<NL>> \o ind \o <<"}">>

JsonMemberLines(o, i, ind) ==
  LET one == ind \o <<"\"">> \o o[i].k \o <<"\"", ":", " ">> \o JsonStringify(o[i].v, ind)
  IN IF i = Len(o) THEN one
     ELSE one \o <<",", NL>> \o JsonMemberLines(o, i + 1, ind)

JsonElementLines(a, i, ind) ==
  LET one == ind \o JsonStringify(a[i], ind)
  IN IF i = Len(a) THEN one
     ELSE one \o <<",", NL>> \o JsonElementLines(a, i + 1, ind)

\* What JavaScript's || takes for false among JSON values.
JsonFalsy(v) ==
  \/ v = JLit(JsonNull)
  \/ v = JLit(JsonFalse)
  \/ v = JNum(<<"0">>)
  \/ v = JStr(<<>>)

(***************************************************************************)
(* Fenced blocks, as the regular expressions of extractJsonBlock and       *)
(* extractNamedSubsections find them: the opening ticks and tag, any white *)
(* space, a line break, the shortest body, a line break, three ticks.      *)
(***************************************************************************)

\* The backtick character. The module writes it as a caret: a string of the
\* module cannot hold a backtick itself.
BT == "^"

Ticks == <<BT, BT, BT>>

\* The first index >= from at which pat occurs in s, 0 when there is none.
FindSub(s, pat, from) ==
  LET At(i) == SubSeq(s, i, i + Len(pat) - 1) = pat
      last == Len(s) - Len(pat) + 1
  IN IF \A i \in from..last : ~At(i) THEN 0
     ELSE CHOOSE i \in from..last : At(i) /\ \A j \in from..(i - 1) : ~At(j)

RECURSIVE WsEnd(_, _)
WsEnd(s, i) == IF i <= Len(s) /\ JsonWs(s[i]) THEN WsEnd(s, i + 1) ELSE i

NoBlock == [found |-> FALSE, body |-> <<>>]

\* The white space after the tag is matched greedily and must be followed by
\* a line break: the line break at p, the last one of the run first, opens
\* the body, which runs to the first line break followed by three ticks
\* that starts after p.
RECURSIVE BlockBody(_, _, _)
BlockBody(s, p, low) ==
  IF p < low THEN NoBlock
  ELSE IF s[p] # NL THEN BlockBody(s, p - 1, low)
  ELSE LET close == FindSub(s, <<NL>> \o Ticks, p + 1)
       IN IF close > 0 THEN [found |-> TRUE, body |-> SubSeq(s, p + 1, close - 1)]
          ELSE BlockBody(s, p - 1, low)

\* The leftmost match of the pattern at or after from.
RECURSIVE MatchBlock(_, _, _)
MatchBlock(s, open, from) ==
  Apply(LAMBDA start :
          LET low == start + Len(open)
          IN IF start = 0 THEN NoBlock
             ELSE Apply(LAMBDA m : IF m.found THEN m ELSE MatchBlock(s, open, start + 1),
                        BlockBody(s, WsEnd(s, low) - 1, low)),
        FindSub(s, open, from))

JsonOpen == Ticks \o <<"j", "s", "o", "n">>

MarkdownOpen == Ticks \o <<"m", "a", "r", "k", "d", "o", "w", "n">>

\* A slip: the text of the block handed back when it does not parse.
extractJsonBlockKeepsText(content) ==
  Apply(LAMBDA m :
          Apply(LAMBDA parsed :
                  IF m.found /\ parsed.ok THEN [null |-> FALSE, val |-> parsed.val]
                  ELSE IF m.found THEN [null |-> FALSE, val |-> JStr(m.body)]
                  ELSE [null |-> TRUE, val |-> JLit(JsonNull)],
                JsonParse(m.body)),
        MatchBlock(content, JsonOpen, 1))

\* extractJsonBlock: .null where it returns null.
extractJsonBlock(content) ==
  Apply(LAMBDA m :
          Apply(LAMBDA parsed :
                  IF m.found /\ parsed.ok THEN [null |-> FALSE, val |-> parsed.val]
                  ELSE [null |-> TRUE, val |-> JLit(JsonNull)],
                JsonParse(m.body)),
        MatchBlock(content, JsonOpen, 1))

\* extractJsonBlock(content) || {}
JsonBlockOrEmpty(content) ==
  LET b == extractJsonBlock(content)
  IN IF b.null \/ JsonFalsy(b.val) THEN JObj(EmptyObj) ELSE b.val

(***************************************************************************)
(* Sections and subsections (src/src/templates.mjs)                        *)
(***************************************************************************)

Hash2 == <<"#", "#", " ">>

Hash3 == <<"#", "#", "#", " ">>

\* /^## .+/ and /^### .+/ on a trimmed line: the marker and one more
\* character at least.
IsHeading(trimmed, marker) == StartsWith(trimmed, marker) /\ Len(trimmed) > Len(marker)

\* A slip: the fence is not looked at.
SectionLineNoFence(st, line) ==
  LET trimmed == Trim(line)
      found == IF IsHeading(trimmed, Hash2)
               THEN Append(st.found, [name |-> ToLowerCase(Trim(SliceFrom(trimmed, 3))),
                                      index |-> st.pos, fullMatch |-> line])
               ELSE st.found
  IN [inFence |-> FALSE, pos |-> st.pos + Len(line) + 1, found |-> found]

\* One turn of the loop of findTopLevelSections (lines 254-272).
SectionLine(st, line) ==
  LET trimmed == Trim(line)
      inFence == IF StartsWith(trimmed, Ticks) THEN ~st.inFence ELSE st.inFence
      found == IF ~inFence /\ IsHeading(trimmed, Hash2)
               THEN Append(st.found, [name |-> ToLowerCase(Trim(SliceFrom(trimmed, 3))),
                                      index |-> st.pos, fullMatch |-> line])
               ELSE st.found
  IN [inFence |-> inFence, pos |-> st.pos + Len(line) + 1, found |-> found]

\* A slip: the name of a subsection lower-cased like a section's.
SubsectionLineLowerCase(st, line) ==
  LET trimmed == Trim(line)
      inFence == IF StartsWith(trimmed, Ticks) THEN ~st.inFence ELSE st.inFence
      found == IF ~inFence /\ IsHeading(trimmed, Hash3)
               THEN Append(st.found, [name |-> ToLowerCase(Trim(SliceFrom(trimmed, 4))),
                                      index |-> st.pos, fullMatch |-> line])
               ELSE st.found
  IN [inFence |-> inFence, pos |-> st.pos + Len(line) + 1, found |-> found]

\* One turn of the loop of findTopLevelSubsections (lines 359-375).
SubsectionLine(st, line) ==
  LET trimmed == Trim(line)
      inFence == IF StartsWith(trimmed, Ticks) THEN ~st.inFence ELSE st.inFence
      found == IF ~inFence /\ IsHeading(trimmed, Hash3)
               THEN Append(st.found, [name |-> Trim(SliceFrom(trimmed, 4)),
                                      index |-> st.pos, fullMatch |-> line])
               ELSE st.found
  IN [inFence |-> inFence, pos |-> st.pos + Len(line) + 1, found |-> found]

ScanStart == [inFence |-> FALSE, pos |-> 0, found |-> <<>>]

RECURSIVE SectionScan(_, _, _)
SectionScan(st, lines, i) ==
  IF i > Len(lines) THEN st
  ELSE Apply(LAMBDA next : SectionScan(next, lines, i + 1), SectionLine(st, lines[i]))

RECURSIVE SubsectionScan(_, _, _)
SubsectionScan(st, lines, i) ==
  IF i > Len(lines) THEN st
  ELSE Apply(LAMBDA next : SubsectionScan(next, lines, i + 1),
             SubsectionLine(st, lines[i]))

findTopLevelSections(body) ==
  Apply(LAMBDA lines : SectionScan(ScanStart, lines, 1), Split(body, NL)).found

findTopLevelSubsections(content) ==
  Apply(LAMBDA lines : SubsectionScan(ScanStart, lines, 1), Split(content, NL)).found

\* A slip: every span runs to the end of the text.
SpanContentToEnd(text, starts, i) ==
  Trim(Slice(text, starts[i].index + Len(starts[i].fullMatch), Len(text)))

\* The text of heading i of starts: from the end of its line to the next
\* heading, or to the end of text, trimmed (lines 300-303, 391-394).
SpanContent(text, starts, i) ==
  LET contentStart == starts[i].index + Len(starts[i].fullMatch)
      contentEnd == IF i + 1 <= Len(starts) THEN starts[i + 1].index ELSE Len(text)
  IN Trim(Slice(text, contentStart, contentEnd))

\* The loop of extractNamedSubsections (lines 389-404): the entries are
\* name -> text.
RECURSIVE NamedSubsections(_, _, _, _)
NamedSubsections(content, subStarts, i, acc) ==
  IF i > Len(subStarts) THEN acc
  ELSE Apply(LAMBDA subContent :
               LET mdBlock == MatchBlock(subContent, MarkdownOpen, 1)
                   text == IF mdBlock.found THEN Trim(mdBlock.body) ELSE subContent
               IN Apply(LAMBDA next : NamedSubsections(content, subStarts, i + 1, next),
                        ObjPut(acc, subStarts[i].name, text)),
             SpanContent(content, subStarts, i))

extractNamedSubsections(content) ==
  Apply(LAMBDA subStarts : NamedSubsections(content, subStarts, 1, EmptyObj),
        findTopLevelSubsections(content))

(***************************************************************************)
(* The external skills table (src/src/templates.mjs)                       *)
(***************************************************************************)

\* trimmed.split("|").map((c) => c.trim()).filter((c) => c.length > 0)
RECURSIVE TrimmedCells(_, _)
TrimmedCells(parts, i) ==
  IF i > Len(parts) THEN <<>>
  ELSE LET c == Trim(parts[i])
       IN IF c = <<>> THEN TrimmedCells(parts, i + 1)
          ELSE <<c>> \o TrimmedCells(parts, i + 1)

RowCells(trimmed) == TrimmedCells(Split(trimmed, "|"), 1)

NameCell == <<"n", "a", "m", "e">>

\* A slip: a short row ends the table.
TableLineShortRowEnds(st, line) ==
  LET trimmed == Trim(line)
      cells == RowCells(trimmed)
  IN IF StartsWith(trimmed, <<"|">>) /\ Len(cells) < 4 THEN [st EXCEPT !.inTable = FALSE]
     ELSE IF ~StartsWith(trimmed, <<"|">>) THEN st
     ELSE IF ToLowerCase(cells[1]) = NameCell THEN [st EXCEPT !.inTable = TRUE]
     ELSE IF StartsWith(cells[1], <<"-">>) THEN st
     ELSE IF st.inTable
          THEN [st EXCEPT !.skills = Append(st.skills,
                  [name |-> cells[1], repository |-> cells[2],
                   skill |-> cells[3], description |-> cells[4]])]
     ELSE st

\* One turn of the loop of parseExternalSkillsTable (lines 419-449).
TableLine(st, line) ==
  LET trimmed == Trim(line)
      cells == RowCells(trimmed)
  IN IF ~StartsWith(trimmed, <<"|">>) THEN st
     ELSE IF Len(cells) < 4 THEN st
     ELSE IF ToLowerCase(cells[1]) = NameCell THEN [st EXCEPT !.inTable = TRUE]
     ELSE IF StartsWith(cells[1], <<"-">>) THEN st
     ELSE IF st.inTable
          THEN [st EXCEPT !.skills = Append(st.skills,
                  [name |-> cells[1], repository |-> cells[2],
                   skill |-> cells[3], description |-> cells[4]])]
     ELSE st

TableStart == [inTable |-> FALSE, skills |-> <<>>]

RECURSIVE TableScan(_, _, _)
TableScan(st, lines, i) ==
  IF i > Len(lines) THEN st
  ELSE Apply(LAMBDA next : TableScan(next, lines, i + 1), TableLine(st, lines[i]))

parseExternalSkillsTable(content) ==
  Apply(LAMBDA lines : TableScan(TableStart, lines, 1), Split(content, NL)).skills

(***************************************************************************)
(* The document (src/src/templates.mjs)                                    *)
(***************************************************************************)

N_claude_md == <<"c", "l", "a", "u", "d", "e", "_", "m", "d">>

N_hooks == <<"h", "o", "o", "k", "s">>

N_skills == <<"s", "k", "i", "l", "l", "s">>

N_agents == <<"a", "g", "e", "n", "t", "s">>

N_mcp_servers == <<"m", "c", "p", "_", "s", "e", "r", "v", "e", "r", "s">>

N_external_skills ==
  <<"e", "x", "t", "e", "r", "n", "a", "l", "_", "s", "k", "i", "l", "l", "s">>

\* The result extractSections starts from (lines 283-290).
NoSections ==
  [claude_md |-> <<>>, hooks |-> JObj(EmptyObj), skills |-> EmptyObj,
   agents |-> EmptyObj, mcp_servers |-> JObj(EmptyObj), external_skills |-> <<>>]

\* The switch of lines 305-329 on one section.
SectionInto(result, name, content) ==
  IF name = N_claude_md THEN [result EXCEPT !.claude_md = content]
  ELSE IF name = N_hooks THEN [result EXCEPT !.hooks = JsonBlockOrEmpty(content)]
  ELSE IF name = N_skills THEN [result EXCEPT !.skills = extractNamedSubsections(content)]
  ELSE IF name = N_agents THEN [result EXCEPT !.agents = extractNamedSubsections(content)]
  ELSE IF name = N_mcp_servers
       THEN [result EXCEPT !.mcp_servers = JsonBlockOrEmpty(content)]
  ELSE IF name = N_external_skills
       THEN [result EXCEPT !.external_skills = parseExternalSkillsTable(content)]
  ELSE result

RECURSIVE SectionsFrom(_, _, _, _)
SectionsFrom(body, sectionStarts, i, result) ==
  IF i > Len(sectionStarts) THEN result
  ELSE Apply(LAMBDA next : SectionsFrom(body, sectionStarts, i + 1, next),
             Apply(LAMBDA content : SectionInto(result, sectionStarts[i].name, content),
                   SpanContent(body, sectionStarts, i)))

extractSections(body) ==
  Apply(LAMBDA sectionStarts : SectionsFrom(body, sectionStarts, 1, NoSections),
        findTopLevelSections(body))

\* A value and its || default: the empty string gives way to "", the other
\* values of extractSections are objects or arrays and stay.
parseTemplateContent(content) ==
  Apply(LAMBDA fm :
    Apply2(LAMBDA scan, sections :
      IF scan.threw
      THEN [threw |-> TRUE, meta |-> EmptyObj, claude_md |-> <<>>,
            hooks |-> JObj(EmptyObj), skills |-> EmptyObj, agents |-> EmptyObj,
            mcp_servers |-> JObj(EmptyObj), external_skills |-> <<>>]
      ELSE [threw |-> FALSE, meta |-> scan.result, claude_md |-> sections.claude_md,
            hooks |-> sections.hooks, skills |-> sections.skills,
            agents |-> sections.agents, mcp_servers |-> sections.mcp_servers,
            external_skills |-> sections.external_skills],
      parseFrontmatter(fm.frontmatter), extractSections(fm.body)),
    extractFrontmatter(content))

(***************************************************************************)
(* Quality tiers (src/unnamed/part_001)                                    *)
(***************************************************************************)

TIERS == << [name |-> "validated",    minRate |-> 85, minSessions |-> 5],
            [name |-> "acceptable",   minRate |-> 65, minSessions |-> 3],
            [name |-> "needs-review", minRate |-> 0,  minSessions |-> 3] >>

\* The for loop of getQualityTier: the index of the first rule both of whose
\* thresholds hold, 0 when the loop runs out.
RECURSIVE FirstTier(_, _, _)
FirstTier(approvalRate, sessions, i) ==
  IF i > Len(TIERS) THEN 0
  ELSE IF approvalRate >= TIERS[i].minRate /\ sessions >= TIERS[i].minSessions
       THEN i
       ELSE FirstTier(approvalRate, sessions, i + 1)

\* A slip: the session guard and the rules' session thresholds forgotten.
RECURSIVE FirstTierRateOnly(_, _)
FirstTierRateOnly(approvalRate, i) ==
  IF i > Len(TIERS) THEN 0
  ELSE IF approvalRate >= TIERS[i].minRate THEN i
       ELSE FirstTierRateOnly(approvalRate, i + 1)

getQualityTierRateOnly(approvalRate, sessions) ==
  LET i == FirstTierRateOnly(approvalRate, 1)
  IN [tier |-> IF i = 0 THEN "insufficient-data" ELSE TIERS[i].name,
      path |-> IF i = 0 THEN "fallback" ELSE "rule"]

\* A slip: the rules tried from the least strict one.
getQualityTierLastRule(approvalRate, sessions) ==
  IF sessions < 3 THEN [tier |-> "insufficient-data", path |-> "guard"]
  ELSE [tier |-> "needs-review", path |-> "rule"]

\* tier: the name returned; path: the return statement that returned it
\* (the guard of line 38, a rule of the loop, the fallback of line 46).
getQualityTier(approvalRate, sessions) ==
  IF sessions < 3 THEN [tier |-> "insufficient-data", path |-> "guard"]
  ELSE LET i == FirstTier(approvalRate, sessions, 1)
       IN IF i = 0 THEN [tier |-> "insufficient-data", path |-> "fallback"]
          ELSE [tier |-> TIERS[i].name, path |-> "rule"]

MaxSessions == 6

Rates == 0..100

SessionCounts == 0..MaxSessions

(***************************************************************************)
(* Operations                                                              *)
(***************************************************************************)

\* One call of one operation: Init holds the call (op, arg) about to be made,
\* the operation's action makes it and stores what it returned.
InitTier ==
  /\ pc = "call"
  /\ op = "getQualityTier"
  /\ input \in [rate : Rates, sessions : SessionCounts]
  /\ arg = input
  /\ res = <<>>

GetQualityTier ==
  /\ pc = "call"
  /\ op = "getQualityTier"
  /\ res' = getQualityTier(arg.rate, arg.sessions)
  /\ pc' = "done"
  /\ UNCHANGED <<op, input, arg>>

NextTier == GetQualityTier

SpecTier == InitTier /\ [][NextTier]_vars

(***************************************************************************)
(* Claims                                                                  *)
(***************************************************************************)

\* C1: with fewer than 3 sessions getQualityTier returns insufficient-data
\* for every approval rate 0..100, 100 included.
C1_FewSessionsInsufficient ==
  (pc = "done" /\ op = "getQualityTier" /\ arg.sessions < 3) => res.tier = "insufficient-data"

C1_Witness ==
  pc = "done" /\ op = "getQualityTier" /\ arg.sessions = 2 /\ arg.rate = 100
    /\ res.tier = "insufficient-data"

\* C2: with 3 or more sessions getQualityTier returns validated iff
\* rate >= 85 and sessions >= 5, otherwise acceptable iff rate >= 65,
\* otherwise needs-review; the boundary values come out as listed and the
\* final fallback is never the return taken.
C2_Expected(rate, sessions) ==
  IF rate >= 85 /\ sessions >= 5 THEN "validated"
  ELSE IF rate >= 65 THEN "acceptable"
  ELSE "needs-review"

C2_FirstRuleWins ==
  (pc = "done" /\ op = "getQualityTier" /\ arg.sessions >= 3) =>
    /\ res.tier = C2_Expected(arg.rate, arg.sessions)
    /\ res.path = "rule"
    /\ (arg.rate = 85 /\ arg.sessions = 5) => res.tier = "validated"
    /\ (arg.rate = 84 /\ arg.sessions = 5) => res.tier = "acceptable"
    /\ (arg.rate = 65 /\ arg.sessions = 3) => res.tier = "acceptable"
    /\ (arg.rate = 64 /\ arg.sessions = 3) => res.tier = "needs-review"
    /\ (arg.rate = 90 /\ arg.sessions = 3) => res.tier = "acceptable"
    /\ (arg.rate >= 85 /\ arg.sessions \in {3, 4}) => res.tier # "validated"

C2_Witness ==
  pc = "done" /\ op = "getQualityTier" /\ arg.rate = 90 /\ arg.sessions = 4
    /\ res.tier = "acceptable"

(***************************************************************************)
(* The heading scans                                                       *)
(***************************************************************************)

\* All sequences of at most n members of V.
SeqsUpTo(V, n) == UNION { [1..k -> V] : k \in 0..n }

\* The lines joined, with a closing line break when nl.
TextOf(in) == Join(in.lines, NL) \o (IF in.nl THEN <<NL>> ELSE <<>>)

L_hooks == <<"#","#"," ","h","o","o","k","s">>

L_fake == <<"#","#"," ","f","a","k","e">>

L_Fake == <<" "," ","#","#"," ","F","a","k","e">>

L_fence == <<BT,BT,BT>>

L_fenceJson == <<BT,BT,BT,"j","s","o","n">>

L_fenceIn == <<" "," ",BT,BT,BT,"j","s">>

L_text == <<"x">>

L_subA == <<"#","#","#"," ","a">>

L_subB == <<" ","#","#","#"," ","B"," ","c">>

L_fenceMd == <<BT,BT,BT,"m","a","r","k","d","o","w","n">>

SectionVocab == {L_hooks, L_fake, L_Fake, L_fence, L_fenceJson, L_fenceIn, L_text}

SubsectionVocab == {L_subA, L_subB, L_hooks, L_fence, L_fenceMd, L_fenceIn, L_text}

MaxScanLines == 4

InitScan ==
  /\ pc = "call"
  /\ op \in {"findTopLevelSections", "findTopLevelSubsections"}
  /\ input \in [lines : SeqsUpTo(IF op = "findTopLevelSections"
                                 THEN SectionVocab ELSE SubsectionVocab,
                                 MaxScanLines),
                nl : BOOLEAN]
  /\ arg = TextOf(input)
  /\ res = <<>>

FindTopLevelSections ==
  /\ pc = "call"
  /\ op = "findTopLevelSections"
  /\ res' = findTopLevelSections(arg)
  /\ pc' = "done"
  /\ UNCHANGED <<op, input, arg>>

FindTopLevelSubsections ==
  /\ pc = "call"
  /\ op = "findTopLevelSubsections"
  /\ res' = findTopLevelSubsections(arg)
  /\ pc' = "done"
  /\ UNCHANGED <<op, input, arg>>

NextScan == FindTopLevelSections \/ FindTopLevelSubsections

SpecScan == InitScan /\ [][NextScan]_vars

\* The number of lines among the first i whose trimmed text starts with
\* three backticks.
FencesUpTo(lines, i) ==
  Cardinality({j \in 1..i : StartsWith(Trim(lines[j]), Ticks)})

InsideFence(lines, i) == FencesUpTo(lines, i) % 2 = 1

RECURSIVE LineOffset(_, _)
LineOffset(lines, i) ==
  IF i = 1 THEN 0 ELSE LineOffset(lines, i - 1) + Len(lines[i - 1]) + 1

ScanMarker == IF op = "findTopLevelSections" THEN Hash2 ELSE Hash3

ScanDone == pc = "done" /\ op \in {"findTopLevelSections", "findTopLevelSubsections"}

\* The lines of the input that look like a heading of the scan's depth.
HeadingLines(lines) == {i \in 1..Len(lines) : IsHeading(Trim(lines[i]), ScanMarker)}

C6_Example == [lines |-> <<L_hooks, L_fence, L_fake, L_fence>>, nl |-> TRUE]

\* C6: in the section scan and in the subsection scan a heading-looking line
\* inside a fenced region is never reported: the fence state changes at
\* every line whose trimmed text starts with three backticks, whatever tag
\* follows, and the headings reported are exactly the heading-looking lines
\* at which the fence is closed; the body of the example yields the one
\* section hooks.
C6_NoHeadingInsideFence ==
  ScanDone =>
    LET lines == input.lines
        outside == {i \in HeadingLines(lines) : ~InsideFence(lines, i)}
    IN /\ \A k \in 1..Len(res) :
            \E i \in outside :
              res[k].index = LineOffset(lines, i) /\ res[k].fullMatch = lines[i]
       /\ \A i \in HeadingLines(lines) :
            InsideFence(lines, i) =>
              \A k \in 1..Len(res) : res[k].index # LineOffset(lines, i)
       /\ Len(res) = Cardinality(outside)
       /\ (op = "findTopLevelSections" /\ input = C6_Example) =>
            (Len(res) = 1 /\ res[1].name = N_hooks)

C6_Witness ==
  /\ ScanDone
  /\ op = "findTopLevelSections"
  /\ input = C6_Example
  /\ InsideFence(input.lines, 3)
  /\ Len(res) = 1

(***************************************************************************)
(* parseFrontmatter                                                        *)
(***************************************************************************)

Y_id == <<"i","d",":"," ","x">>

Y_open == <<"d",":">>

Y_nested == <<" "," ","k",":">>

Y_item == <<" "," ","-"," ","a">>

Y_deepItem == <<" "," "," "," ","-"," ","\"","b","\"">>

Y_nestedInt == <<" "," ","n",":"," ","0","7">>

Y_emptyList == <<"t",":"," ","[","]">>

Y_comment == <<"#"," ","c">>

FmVocab ==
  {Y_id, Y_open, Y_nested, Y_item, Y_deepItem, Y_nestedInt, Y_emptyList, Y_comment}

MaxFmLines == 4

K_detection == <<"d","e","t","e","c","t","i","o","n">>

K_files_any == <<"f","i","l","e","s","_","a","n","y">>

K_deps == <<"d","e","p","s">>

\* The nested keys of a nested-list frontmatter, in the order written.
NestedKeys == <<K_files_any, K_deps>>

\* An item as written after the dash, and the value it stands for.
ItemForms ==
  { [text |-> <<"\"","a","\"">>, value |-> <<"a">>],
    [text |-> <<"\"","b","\"">>, value |-> <<"b">>],
    [text |-> <<"'","c"," ","d","'">>, value |-> <<"c"," ","d">>],
    [text |-> <<"e">>, value |-> <<"e">>] }

MaxItems == 2

\* The lines of group i: the nested key at indent 2, its items at indent 4.
RECURSIVE ItemLines(_, _)
ItemLines(items, i) ==
  IF i > Len(items) THEN <<>>
  ELSE << <<" "," "," "," ","-"," ">> \o items[i].text >> \o ItemLines(items, i + 1)

RECURSIVE GroupLines(_, _)
GroupLines(groups, i) ==
  IF i > Len(groups) THEN <<>>
  ELSE << <<" "," ">> \o NestedKeys[i] \o <<":">> >>
         \o ItemLines(groups[i], 1) \o GroupLines(groups, i + 1)

\* detection: and under it one nested key with its items per group.
NestedYaml(groups) == Join(<< K_detection \o <<":">> >> \o GroupLines(groups, 1), NL)

FmInputs ==
  [kind : {"lines"}, lines : SeqsUpTo(FmVocab, MaxFmLines), groups : {<<>>}]
  \cup [kind : {"nested"}, lines : {<<>>},
        groups : SeqsUpTo(SeqsUpTo(ItemForms, MaxItems), Len(NestedKeys))]

InitFm ==
  /\ pc = "call"
  /\ op = "parseFrontmatter"
  /\ input \in FmInputs
  /\ arg = IF input.kind = "lines" THEN Join(input.lines, NL) ELSE NestedYaml(input.groups)
  /\ res = <<>>

\* res is the scan state the call ended in: res.result what it returned.
ParseFrontmatter ==
  /\ pc = "call"
  /\ op = "parseFrontmatter"
  /\ res' = parseFrontmatter(arg)
  /\ pc' = "done"
  /\ UNCHANGED <<op, input, arg>>

NextFm == ParseFrontmatter

SpecFm == InitFm /\ [][NextFm]_vars

ItemValues(items) == [i \in 1..Len(items) |-> items[i].value]

\* C7: under an object-opening top-level key, every nested key with an empty
\* value followed by deeper-indented item lines parses to the list of its
\* own items, quotes stripped, in source order; no item goes to a sibling
\* key (detection.files_any = ["a","b"]).
C7_NestedLists ==
  (pc = "done" /\ op = "parseFrontmatter" /\ input.kind = "nested") =>
    /\ ~res.threw
    /\ ObjHas(res.result, K_detection)
    /\ Tag(ObjGet(res.result, K_detection)) = "obj"
    /\ LET detection == Val(ObjGet(res.result, K_detection))
       IN /\ Len(detection) = Len(input.groups)
          /\ \A i \in 1..Len(input.groups) :
               /\ ObjHas(detection, NestedKeys[i])
               /\ ObjGet(detection, NestedKeys[i]) = ListV(ItemValues(input.groups[i]))

C7_Witness ==
  /\ pc = "done" /\ op = "parseFrontmatter" /\ input.kind = "nested"
  /\ Len(input.groups) = 2
  /\ ItemValues(input.groups[1]) = << <<"a">>, <<"b">> >>
  /\ Len(input.groups[2]) = 1
  /\ ObjGet(Val(ObjGet(res.result, K_detection)), K_files_any) = ListV(<< <<"a">>, <<"b">> >>)

(***************************************************************************)
(* parseExternalSkillsTable                                                *)
(***************************************************************************)

\* A row is its cells, as written between the pipes.
R_header == << <<"N","a","m","e">>, <<"R","e","p","o","s","i","t","o","r","y">>,
               <<"S","k","i","l","l">>,
               <<"D","e","s","c","r","i","p","t","i","o","n">> >>

R_separator == << <<"-","-","-">>, <<"-","-","-">>, <<"-","-","-">>, <<"-","-","-">> >>

R_a == << <<"a">>, <<"o","/","r">>, <<"s">>, <<"d"," ","1">> >>

R_b == << <<"b">>, <<"o","/","r">>, <<"t">>, <<"d"," ","2">> >>

R_short == << <<"c">>, <<"o","/","r">>, <<"s">> >>

\* Four cells, the second one empty.
R_gap == << <<"e">>, <<>>, <<"s">>, <<"d">> >>

TableRows == {R_header, R_separator, R_a, R_b, R_short, R_gap}

MaxRows == 4

\* The row as the builder writes one (template-generator.mjs:131): the cells
\* between pipes, a space on both sides of each.
RECURSIVE RowText(_, _)
RowText(cells, i) ==
  IF i > Len(cells) THEN <<"|">>
  ELSE <<"|", " ">> \o cells[i] \o <<" ">> \o RowText(cells, i + 1)

TableText(rows) == Join([i \in 1..Len(rows) |-> RowText(rows[i], 1)], NL)

InitTable ==
  /\ pc = "call"
  /\ op = "parseExternalSkillsTable"
  /\ input \in SeqsUpTo(TableRows, MaxRows)
  /\ arg = TableText(input)
  /\ res = <<>>

ParseExternalSkillsTable ==
  /\ pc = "call"
  /\ op = "parseExternalSkillsTable"
  /\ res' = parseExternalSkillsTable(arg)
  /\ pc' = "done"
  /\ UNCHANGED <<op, input, arg>>

NextTable == ParseExternalSkillsTable

SpecTable == InitTable /\ [][NextTable]_vars

IsHeaderRow(cells) == Len(cells) >= 4 /\ ToLowerCase(cells[1]) = NameCell

IsSeparatorRow(cells) == Len(cells) >= 4 /\ StartsWith(cells[1], <<"-">>)

\* The rows the claim has captured: after a header row, every row of four
\* cells or more that is no header and no separator, by position.
RECURSIVE C9_Captured(_, _, _)
C9_Captured(rows, i, inTable) ==
  IF i > Len(rows) THEN <<>>
  ELSE IF IsHeaderRow(rows[i]) THEN C9_Captured(rows, i + 1, TRUE)
  ELSE IF Len(rows[i]) < 4 \/ IsSeparatorRow(rows[i]) \/ ~inTable
       THEN C9_Captured(rows, i + 1, inTable)
  ELSE << [name |-> rows[i][1], repository |-> rows[i][2],
           skill |-> rows[i][3], description |-> rows[i][4]] >>
         \o C9_Captured(rows, i + 1, inTable)

\* C9: a row with fewer than four cells is skipped without ending the parse,
\* header and separator rows are skipped, and every other row after the
\* header maps by position to (name, repository, skill, description), in
\* table order.
C9_RowsByPosition ==
  (pc = "done" /\ op = "parseExternalSkillsTable") =>
    res = C9_Captured(input, 1, FALSE)

HasGap(rows) == \E i \in 1..Len(rows) : \E j \in 1..Len(rows[i]) : rows[i][j] = <<>>

\* The part of C9 the code keeps: with no empty cell in the table, the rows
\* come out as C9 has them; a row of four cells after a row of three is
\* captured.
C9_RowsByPositionNoGap ==
  (pc = "done" /\ op = "parseExternalSkillsTable" /\ ~HasGap(input)) =>
    res = C9_Captured(input, 1, FALSE)

C9_ShortRowWitness ==
  /\ pc = "done" /\ op = "parseExternalSkillsTable"
  /\ input = <<R_header, R_separator, R_short, R_a>>
  /\ Len(res) = 1 /\ res[1].name = <<"a">>

(***************************************************************************)
(* The builder (src/src/template-generator.mjs)                            *)
(***************************************************************************)

\* The lines of lines 37-39: one item, quoted, at indent 4 per value.
RECURSIVE DetectionItems(_, _)
DetectionItems(values, i) ==
  IF i > Len(values) THEN <<>>
  ELSE << <<" "," "," "," ","-"," ","\"">> \o values[i] \o <<"\"">> >> \o DetectionItems(values, i + 1)

\* The loop of lines 34-41: a key whose list is empty writes nothing.
RECURSIVE DetectionLines(_, _)
DetectionLines(detection, i) ==
  IF i > Len(detection) THEN <<>>
  ELSE (IF Len(detection[i].v) > 0
        THEN << <<" ", " ">> \o detection[i].k \o <<":">> >>
               \o DetectionItems(detection[i].v, 1)
        ELSE <<>>)
       \o DetectionLines(detection, i + 1)

\* meta.detection is .hasDetection and, when it is there, the entries
\* .detection of key and list.
buildFrontmatter(meta) ==
  Join(<< Delim,
          <<"i","d",":"," ">> \o meta.id,
          <<"n","a","m","e",":"," ">> \o meta.name,
          <<"d","e","s","c","r","i","p","t","i","o","n",":"," ">> \o meta.description,
          <<"v","e","r","s","i","o","n",":"," ","1">> >>
       \o (IF meta.hasDetection
           THEN << <<"d","e","t","e","c","t","i","o","n",":">> >> \o DetectionLines(meta.detection, 1)
           ELSE <<>>)
       \o << Delim >>, NL)

\* The loop of lines 94-100 and 106-112: a heading, the content trimmed
\* inside a markdown fence, an empty line.
RECURSIVE NamedParts(_, _)
NamedParts(entries, i) ==
  IF i > Len(entries) THEN <<>>
  ELSE << Hash3 \o entries[i].k, MarkdownOpen, Trim(entries[i].v), Ticks, <<>> >>
       \o NamedParts(entries, i + 1)

\* The loop of lines 130-132.
RECURSIVE SkillRows(_, _)
SkillRows(externalSkills, i) ==
  IF i > Len(externalSkills) THEN <<>>
  ELSE << RowText(<< externalSkills[i].name, externalSkills[i].repository,
                     externalSkills[i].skill, externalSkills[i].description >>, 1) >>
       \o SkillRows(externalSkills, i + 1)

TableHeader == 
  <<"|"," ","N","a","m","e"," ","|"," ","R","e","p","o","s","i","t","o","r","y"," ","|"," ","S","k","i","l","l"," ","|"," ","D","e","s","c","r","i","p","t","i","o","n"," ","|">>

TableRule == 
  <<"|","-","-","-","-","-","-","|","-","-","-","-","-","-","-","-","-","-","-","|","-","-","-","-","-","-","-","|","-","-","-","-","-","-","-","-","-","-","-","-","-","|">>

\* An option left out is the empty value of its kind: the conditions of
\* lines 77, 84, 93, 105, 117 and 126 take both the same way.
buildTemplateContent(options) ==
  Join(<< buildFrontmatter(options.meta), <<>>, <<"#", " ">> \o options.meta.name, <<>> >>
       \o (IF options.claudeMd # <<>>
           THEN << Hash2 \o N_claude_md, Trim(options.claudeMd), <<>> >> ELSE <<>>)
       \o (IF Len(options.hooks) > 0
           THEN << Hash2 \o N_hooks, JsonOpen,
                   JsonStringify(JObj(options.hooks), <<>>), Ticks, <<>> >>
           ELSE <<>>)
       \o (IF Len(options.skills) > 0
           THEN << Hash2 \o N_skills >> \o NamedParts(options.skills, 1) ELSE <<>>)
       \o (IF Len(options.agents) > 0
           THEN << Hash2 \o N_agents >> \o NamedParts(options.agents, 1) ELSE <<>>)
       \o (IF Len(options.mcpServers) > 0
           THEN << Hash2 \o N_mcp_servers, JsonOpen,
                   JsonStringify(JObj(options.mcpServers), <<>>), Ticks, <<>> >>
           ELSE <<>>)
       \o (IF Len(options.externalSkills) > 0
           THEN << Hash2 \o N_external_skills, TableHeader, TableRule >>
                \o SkillRows(options.externalSkills, 1) \o << <<>> >>
           ELSE <<>>),
       NL)

(***************************************************************************)
(* parseTemplateContent                                                    *)
(***************************************************************************)

\* The blocks a document is put together from, each the lines it holds.
B_claude ==
  << <<"#","#"," ","c","l","a","u","d","e","_","m","d">>,
     <<" "," ","u","s","e"," ","t","a","b","s"," "," ">> >>

B_hooksGood ==
  << <<"#","#"," ","h","o","o","k","s">>,
     <<BT,BT,BT,"j","s","o","n">>,
     <<"{","\"","a","\"",":"," ","1","}">>,
     <<BT,BT,BT>> >>

B_hooksBad ==
  << <<"#","#"," ","h","o","o","k","s">>,
     <<BT,BT,BT,"j","s","o","n">>,
     <<"{","\"","a","\"",":"," ">>,
     <<BT,BT,BT>> >>

B_hooksOpen ==
  << <<"#","#"," ","h","o","o","k","s">>,
     <<BT,BT,BT,"j","s","o","n">>,
     <<"{">> >>

B_mcpGood ==
  << <<"#","#"," ","m","c","p","_","s","e","r","v","e","r","s">>,
     <<BT,BT,BT,"j","s","o","n">>,
     <<"{","\"","m","\"",":"," ","{","}","}">>,
     <<BT,BT,BT>> >>

B_mcpBad ==
  << <<"#","#"," ","m","c","p","_","s","e","r","v","e","r","s">>,
     <<BT,BT,BT,"j","s","o","n">>,
     <<"{","m","}">>,
     <<BT,BT,BT>> >>

B_skills ==
  << <<"#","#"," ","s","k","i","l","l","s">>,
     <<"#","#","#"," ","s","1">>,
     <<BT,BT,BT,"m","a","r","k","d","o","w","n">>,
     <<"d","o"," ","i","t">>,
     <<BT,BT,BT>> >>

B_agents ==
  << <<"#","#"," ","a","g","e","n","t","s">>,
     <<"#","#","#"," ","a","1">>,
     <<"r","a","w">> >>

B_table ==
  << <<"#","#"," ","e","x","t","e","r","n","a","l","_","s","k","i","l","l","s">>,
     <<"|"," ","N","a","m","e"," ","|"," ","R","e","p","o","s","i","t","o","r","y",
       " ","|"," ","S","k","i","l","l"," ","|"," ","D","e","s","c","r","i","p","t",
       "i","o","n"," ","|">>,
     <<"|","-","-","-","|","-","-","-","|","-","-","-","|","-","-","-","|">>,
     <<"|"," ","c"," ","|"," ","o","/","r"," ","|"," ","s"," ","|">>,
     <<"|"," ","a"," ","|"," ","o","/","r"," ","|"," ","s"," ","|"," ","d"," ","|">> >>

B_text ==
  << <<"p","l","a","i","n">> >>

Blocks ==
  {B_claude, B_hooksGood, B_hooksBad, B_hooksOpen, B_mcpGood, B_mcpBad,
   B_skills, B_agents, B_table, B_text}

MaxBlocks == 2

MaxDocFmLines == 3

\* A list under a key, then a list under its parent, then one more item
\* below: frontmatter no writer of the format produces.
MixedFm == <<Y_open, Y_nested, Y_item, Y_deepItem>>

L_intro == <<"i","n","t","r","o">>

\* Where the frontmatter stands: not delimited, delimited, opened and never
\* closed, delimited below a first line of text.
Heads == {"none", "closed", "open", "late"}

HeadLines(in) ==
  IF in.head = "none" THEN in.fm
  ELSE IF in.head = "closed" THEN <<Delim>> \o in.fm \o <<Delim>>
  ELSE IF in.head = "open" THEN <<Delim>> \o in.fm
  ELSE <<L_intro, Delim>> \o in.fm \o <<Delim>>

RECURSIVE BlockLines(_, _)
BlockLines(blocks, i) ==
  IF i > Len(blocks) THEN <<>> ELSE blocks[i] \o BlockLines(blocks, i + 1)

DocLines(in) == HeadLines(in) \o BlockLines(in.blocks, 1)

DocText(in) == Join(DocLines(in), NL)

DocInputs ==
  [head : Heads, fm : SeqsUpTo(FmVocab, MaxDocFmLines), blocks : {<<>>}]
  \cup [head : Heads, fm : {MixedFm}, blocks : SeqsUpTo(Blocks, MaxBlocks)]

InitDoc ==
  /\ pc = "call"
  /\ op = "parseTemplateContent"
  /\ input \in DocInputs
  /\ arg = DocText(input)
  /\ res = <<>>

ParseTemplateContent ==
  /\ pc = "call"
  /\ op = "parseTemplateContent"
  /\ res' = parseTemplateContent(arg)
  /\ pc' = "done"
  /\ UNCHANGED <<op, input, arg>>

NextDoc == ParseTemplateContent

SpecDoc == InitDoc /\ [][NextDoc]_vars

DocDone == pc = "done" /\ op = "parseTemplateContent"

FirstLine(text) == Split(text, NL)[1]

\* The lines of text that open a section: a heading of depth two at which
\* the fence is closed.
SectionHeads(lines) ==
  {i \in 1..Len(lines) : IsHeading(Trim(lines[i]), Hash2) /\ ~InsideFence(lines, i)}

HeadName(line) == ToLowerCase(Trim(SliceFrom(Trim(line), 3)))

\* The text under the last section of that name, trimmed: its lines run to
\* the next section or to the end. Empty when there is no such section.
SectionText(lines, name) ==
  LET heads == SectionHeads(lines)
      named == {i \in heads : HeadName(lines[i]) = name}
      last == CHOOSE i \in named : \A j \in named : j <= i
      after == {i \in heads : i > last}
      next == IF after = {} THEN Len(lines) + 1
              ELSE CHOOSE i \in after : \A j \in after : i <= j
  IN IF named = {} THEN <<>> ELSE Trim(Join(SubSeq(lines, last + 1, next - 1), NL))

EmptyDocument ==
  [threw |-> FALSE, meta |-> EmptyObj, claude_md |-> <<>>, hooks |-> JObj(EmptyObj),
   skills |-> EmptyObj, agents |-> EmptyObj, mcp_servers |-> JObj(EmptyObj),
   external_skills |-> <<>>]

\* C3 as stated: for any input text whose first line is not the delimiter,
\* parseTemplateContent returns empty metadata and the entire input as
\* claude_md.
C3_WholeInputIsGuidance ==
  (DocDone /\ Trim(FirstLine(arg)) # Delim) =>
    (res.meta = EmptyObj /\ res.claude_md = arg)

\* C3, amended: for any input text whose first line is not the delimiter,
\* parseTemplateContent returns empty metadata and takes the entire input
\* as the body: claude_md is the trimmed text under the last claude_md
\* section of the input, and empty when the input has no such section.
C3_NoDelimiterNoMetadata ==
  (DocDone /\ Trim(FirstLine(arg)) # Delim) =>
    /\ ~res.threw
    /\ res.meta = EmptyObj
    /\ res.claude_md = SectionText(Split(arg, NL), N_claude_md)
    /\ (SectionHeads(Split(arg, NL)) = {} => res = EmptyDocument)

C3_Witness ==
  /\ DocDone
  /\ input.head = "late"
  /\ input.blocks = <<B_text, B_claude>>
  /\ res.meta = EmptyObj
  /\ res.claude_md = <<"u","s","e"," ","t","a","b","s">>
  /\ res.claude_md # arg

\* C4: parseTemplateContent never throws, whatever the input (frontmatter
\* that is malformed or never closed, fences never closed, JSON blocks that
\* do not parse, short table rows); at worst, when the input has neither
\* delimited frontmatter nor a section, the document is the empty one:
\* empty metadata, claude_md "", hooks {}, skills {}, agents {},
\* mcp_servers {}, external_skills [].
C4_NeverThrows ==
  DocDone =>
    /\ ~res.threw
    /\ (input.head \in {"none", "open"} /\ SectionHeads(DocLines(input)) = {})
         => res = EmptyDocument

C4_Witness ==
  /\ DocDone
  /\ input.head = "closed"
  /\ input.fm = MixedFm
  /\ input.blocks = <<B_table, B_hooksOpen>>
  /\ ~res.threw
  /\ Len(res.external_skills) = 1
  /\ res.hooks = JObj(EmptyObj)

\* The blocks with the malformed JSON block of one section made well-formed.
Repaired(blocks, bad, good) ==
  [i \in 1..Len(blocks) |-> IF blocks[i] = bad THEN good ELSE blocks[i]]

HasBlock(blocks, b) == \E i \in 1..Len(blocks) : blocks[i] = b

\* The block at i is the last one of its section, and every fence before it
\* is closed.
LastOfSection(blocks, i) ==
  /\ \A j \in (i + 1)..Len(blocks) : blocks[j][1] # blocks[i][1]
  /\ ~HasBlock(blocks, B_hooksOpen)

\* C8: a hooks or mcp_servers section whose fenced JSON block is malformed
\* yields {} for that section, and every other section of the document,
\* before or after it, has the value it would have with the JSON
\* well-formed.
C8_MalformedJsonIsLocal ==
  DocDone =>
    LET hooksFixed ==
          parseTemplateContent(
            DocText([input EXCEPT !.blocks = Repaired(@, B_hooksBad, B_hooksGood)]))
        mcpFixed ==
          parseTemplateContent(
            DocText([input EXCEPT !.blocks = Repaired(@, B_mcpBad, B_mcpGood)]))
    IN /\ HasBlock(input.blocks, B_hooksBad) =>
            /\ [res EXCEPT !.hooks = <<>>] = [hooksFixed EXCEPT !.hooks = <<>>]
            /\ \A i \in 1..Len(input.blocks) :
                 (input.blocks[i] = B_hooksBad /\ LastOfSection(input.blocks, i))
                   => res.hooks = JObj(EmptyObj)
       /\ HasBlock(input.blocks, B_mcpBad) =>
            /\ [res EXCEPT !.mcp_servers = <<>>] = [mcpFixed EXCEPT !.mcp_servers = <<>>]
            /\ \A i \in 1..Len(input.blocks) :
                 (input.blocks[i] = B_mcpBad /\ LastOfSection(input.blocks, i))
                   => res.mcp_servers = JObj(EmptyObj)

C8_Witness ==
  /\ DocDone
  /\ input.head = "closed"
  /\ input.blocks = <<B_hooksBad, B_skills>>
  /\ res.hooks = JObj(EmptyObj)
  /\ res.skills = << [k |-> <<"s","1">>, v |-> <<"d","o"," ","i","t">>] >>

(***************************************************************************)
(* buildTemplateContent, then parseTemplateContent                         *)
(***************************************************************************)

V_text == <<"d","o"," ","i","t">>

\* Text that holds a fenced block of its own.
V_fenced == <<"r","u","n",":",NL,BT,BT,BT,"s","h",NL,"m","a","k","e",NL,BT,BT,BT,NL,"d","o","n","e">>

\* Guidance with a heading of depth two in it.
V_headed == <<"i","n","t","r","o",NL,"#","#"," ","s","t","y","l","e",NL,"u","s","e"," ","t","a","b","s">>

MetaValues ==
  [id : {<<"x">>}, name : {<<"n">>}, description : {<<"d">>, <<"a",":"," ","b">>},
   hasDetection : {TRUE},
   detection : { << [k |-> K_files_any, v |-> << <<"a",".","b">>, <<"c">> >>] >>,
                 << [k |-> K_files_any, v |-> << <<"a",".","b">> >>], [k |-> K_deps, v |-> <<>>] >> }]
  \cup [id : {<<"x">>}, name : {<<"n">>}, description : {<<"d">>, <<"a",":"," ","b">>},
        hasDetection : {FALSE}, detection : {<<>>}]

JsonValues ==
  { EmptyObj,
    << [k |-> <<"a">>, v |-> JArr(<< JNum(<<"1">>), JObj(<< [k |-> <<"b">>, v |-> JStr(<<"c">>)] >>) >>)],
       [k |-> <<"e">>, v |-> JLit(JsonTrue)] >> }

NamedValues ==
  { EmptyObj,
    << [k |-> <<"s","1">>, v |-> V_text] >>,
    << [k |-> <<"s","1">>, v |-> V_fenced], [k |-> <<"s","2">>, v |-> V_text] >> }

SkillValues ==
  { <<>>,
    << [name |-> <<"a">>, repository |-> <<"o","/","r">>, skill |-> <<"s">>, description |-> <<"d"," ","1">>] >>,
    << [name |-> <<"a">>, repository |-> <<"o","/","r">>, skill |-> <<"s">>, description |-> <<>>],
       [name |-> <<"b">>, repository |-> <<"o","/","r">>, skill |-> <<"t">>, description |-> <<"d"," ","2">>] >> }

TemplateValues ==
  [meta : MetaValues, claudeMd : {<<>>, V_text, V_headed}, hooks : JsonValues,
   skills : NamedValues, agents : {EmptyObj, << [k |-> <<"a","1">>, v |-> V_text] >>},
   mcpServers : JsonValues, externalSkills : SkillValues]

InitRoundTrip ==
  /\ pc = "call"
  /\ op = "roundTrip"
  /\ input \in TemplateValues
  /\ arg = <<>>
  /\ res = <<>>

BuildTemplateContent ==
  /\ pc = "call"
  /\ op = "roundTrip"
  /\ arg' = buildTemplateContent(input)
  /\ pc' = "built"
  /\ UNCHANGED <<op, input, res>>

ParseBuiltContent ==
  /\ pc = "built"
  /\ op = "roundTrip"
  /\ res' = parseTemplateContent(arg)
  /\ pc' = "done"
  /\ UNCHANGED <<op, input, arg>>

NextRoundTrip == BuildTemplateContent \/ ParseBuiltContent

SpecRoundTrip == InitRoundTrip /\ [][NextRoundTrip]_vars

RECURSIVE ListsOf(_, _)
ListsOf(detection, i) ==
  IF i > Len(detection) THEN <<>>
  ELSE << [k |-> detection[i].k, v |-> ListV(detection[i].v)] >> \o ListsOf(detection, i + 1)

\* The template value as the document that holds it: every field of the
\* value in its place, the version the one the builder writes.
Original(value) ==
  [threw |-> FALSE,
   meta |-> << [k |-> <<"i","d">>, v |-> StrV(value.meta.id)],
               [k |-> <<"n","a","m","e">>, v |-> StrV(value.meta.name)],
               [k |-> <<"d","e","s","c","r","i","p","t","i","o","n">>, v |-> StrV(value.meta.description)],
               [k |-> <<"v","e","r","s","i","o","n">>, v |-> IntV(<<"1">>)] >>
            \o (IF value.meta.hasDetection
                THEN << [k |-> K_detection, v |-> ObjV(ListsOf(value.meta.detection, 1))] >>
                ELSE <<>>),
   claude_md |-> value.claudeMd,
   hooks |-> JObj(value.hooks),
   skills |-> value.skills,
   agents |-> value.agents,
   mcp_servers |-> JObj(value.mcpServers),
   external_skills |-> value.externalSkills]

RoundTripDone == pc = "done" /\ op = "roundTrip"

\* C5: for every template value, parseTemplateContent of
\* buildTemplateContent of the value is a document whose every field equals
\* the original: the metadata (id, name, description, version, detection),
\* the guidance, hooks, skills, agents, mcp servers and external skill rows.
C5_RoundTrip == RoundTripDone => res = Original(input)

HasFenceLine(text) ==
  \E i \in 1..Len(Split(text, NL)) : StartsWith(Trim(Split(text, NL)[i]), Ticks)

HasHeadingLine(text) ==
  \E i \in 1..Len(Split(text, NL)) : IsHeading(Trim(Split(text, NL)[i]), Hash2)

\* A value the round trip keeps: no list of detection is empty, no heading
\* of depth two in the guidance, no fence in the text of a skill or agent,
\* no empty field in an external skill.
Kept(value) ==
  /\ \A i \in 1..Len(value.meta.detection) : value.meta.detection[i].v # <<>>
  /\ ~HasHeadingLine(value.claudeMd)
  /\ \A i \in 1..Len(value.skills) : ~HasFenceLine(value.skills[i].v)
  /\ \A i \in 1..Len(value.agents) : ~HasFenceLine(value.agents[i].v)
  /\ \A i \in 1..Len(value.externalSkills) :
       /\ value.externalSkills[i].name # <<>>
       /\ value.externalSkills[i].repository # <<>>
       /\ value.externalSkills[i].skill # <<>>
       /\ value.externalSkills[i].description # <<>>

\* The round trip of C5 on the values of Kept.
C5_RoundTripKept == (RoundTripDone /\ Kept(input)) => res = Original(input)

\* The text of a skill is cut at the fence it holds.
C5_FencedSkillCut ==
  /\ RoundTripDone
  /\ Len(input.skills) = 2
  /\ input.skills[1].v = V_fenced
  /\ Kept([input EXCEPT !.skills = EmptyObj])
  /\ ObjGet(res.skills, input.skills[1].k) = <<"r","u","n",":">>

(***************************************************************************)
(* Feedback aggregation (src/src/feedback.mjs)                             *)
(*                                                                         *)
(* A field that is missing and a field that is the empty string are both   *)
(* <<>>: the code reads them behind || only.                               *)
(***************************************************************************)

S_approved == <<"a","p","p","r","o","v","e","d">>

S_skipped == <<"s","k","i","p","p","e","d">>

S_modified == <<"m","o","d","i","f","i","e","d">>

\* The cases mcp, skill, agent, claude_md and external_skill of the switch
\* build the same text as its default.
deriveHeuristicKey(item) ==
  LET category == IF item.category # <<>> THEN item.category ELSE <<"u","n","k","n","o","w","n">>
      name == IF item.name # <<>> THEN item.name
              ELSE IF item.id # <<>> THEN item.id ELSE <<"u","n","n","a","m","e","d">>
  IN IF category = <<"h","o","o","k">>
     THEN <<"h","o","o","k",":">> \o item.event \o <<":">> \o name
     ELSE category \o <<":">> \o name

(***************************************************************************)
(* Double-precision arithmetic, for approved / total * 100 and Math.round. *)
(* A positive double is [e, m]: m its 53 significant bits, the first one   *)
(* 1 and of weight 2^e. Zero is F64Zero.                                   *)
(***************************************************************************)

F64Bits == 53

F64Zero == [e |-> 0, m |-> <<>>]

\* The eight bits of a byte, the heaviest first.
ByteBits(q) == [i \in 1..8 |-> (q \div (2 ^ (8 - i))) % 2]

\* The value of eight bits.
BitsByte(bits) ==
  128 * bits[1] + 64 * bits[2] + 32 * bits[3] + 16 * bits[4]
    + 8 * bits[5] + 4 * bits[6] + 2 * bits[7] + bits[8]

\* The long division r / d, r < d < 2^18, a byte of the quotient a step: the
\* first 8 * n bits of the quotient after the point and the remainder left.
RECURSIVE DivBits(_, _, _, _)
DivBits(r, d, n, bits) ==
  IF n = 0 THEN [bits |-> bits, rem |-> r]
  ELSE Apply2(LAMBDA left, sofar : DivBits(left, d, n - 1, sofar),
              (256 * r) % d, bits \o ByteBits((256 * r) \div d))

\* bits + 1, the carry out of the first bit in front.
IncBits(bits) ==
  IF \A i \in 1..Len(bits) : bits[i] = 1 THEN <<1>> \o [i \in 1..Len(bits) |-> 0]
  ELSE LET z == CHOOSE i \in 1..Len(bits) :
                  bits[i] = 0 /\ \A j \in (i + 1)..Len(bits) : bits[j] = 1
       IN [i \in 1..Len(bits) |-> IF i < z THEN bits[i] ELSE IF i = z THEN 1 ELSE 0]

\* bits, its first bit 1 and of weight 2^e, the rest of the value below it
\* being sticky: rounded to 53 bits, to nearest, a tie to the even one.
F64Round(e, bits, sticky) ==
  LET kept == SubSeq(bits, 1, F64Bits)
      guard == bits[F64Bits + 1]
      rest == sticky \/ \E i \in (F64Bits + 2)..Len(bits) : bits[i] = 1
      up == guard = 1 /\ (rest \/ kept[F64Bits] = 1)
      sum == IncBits(kept)
  IN IF ~up THEN [e |-> e, m |-> kept]
     ELSE IF Len(sum) > F64Bits THEN [e |-> e + 1, m |-> SubSeq(sum, 1, F64Bits)]
     ELSE [e |-> e, m |-> sum]

FirstOne(bits) == CHOOSE i \in 1..Len(bits) : bits[i] = 1 /\ \A j \in 1..(i - 1) : bits[j] = 0

\* a / d for integers 0 <= a <= d, 0 < d < 2^18: 72 bits of the quotient
\* hold the 54 that the rounding reads.
F64Divide(a, d) ==
  IF a = 0 THEN F64Zero
  ELSE IF a = d THEN [e |-> 0, m |-> [i \in 1..F64Bits |-> IF i = 1 THEN 1 ELSE 0]]
  ELSE Apply(LAMBDA q :
               LET lead == FirstOne(q.bits)
               IN F64Round(-lead, SubSeq(q.bits, lead, Len(q.bits)), q.rem # 0),
             DivBits(a, d, 9, <<>>))

\* The bytes of 56 bits times 100, from the last byte to the first, the
\* carry out in front: 64 bits.
RECURSIVE Times100Bytes(_, _, _)
Times100Bytes(bits, k, carry) ==
  IF k = 0 THEN ByteBits(carry)
  ELSE Apply(LAMBDA t : Times100Bytes(bits, k - 1, t \div 256) \o ByteBits(t % 256),
             100 * BitsByte(SubSeq(bits, 8 * k - 7, 8 * k)) + carry)

\* x * 100: the exact product of the significant bits, then rounded.
F64Times100(x) ==
  IF x = F64Zero THEN F64Zero
  ELSE Apply(LAMBDA prod :
               LET lead == FirstOne(prod)
               IN F64Round(x.e + 9 - lead, SubSeq(prod, lead, Len(prod)) \o <<0>>, FALSE),
             Times100Bytes(x.m \o <<0, 0, 0>>, 7, 0))

RECURSIVE BitsValue(_, _)
BitsValue(bits, i) == IF i = 0 THEN 0 ELSE 2 * BitsValue(bits, i - 1) + bits[i]

\* Math.round(x) for 0 <= x < 2^30: the integer part, and one more when the
\* fraction is a half or above.
MathRound(x) ==
  IF x = F64Zero THEN 0
  ELSE IF x.e < -1 THEN 0
  ELSE BitsValue(x.m, x.e + 1) + x.m[x.e + 2]

\* round(100 * approved / total) taken exactly, a half rounded up.
RoundedRateExact(approved, total) == (200 * approved + total) \div (2 * total)

\* Math.round((approved / total) * 100) for 0 <= approved <= total, 0 < total.
RoundedRate(approved, total) == MathRound(F64Times100(F64Divide(approved, total)))

NewHeuristic == [total |-> 0, approved |-> 0, skipped |-> 0, modified |-> 0]

NewTemplate == [sessions |-> 0, totalItems |-> 0, approved |-> 0]

AggStart ==
  [byHeuristic |-> EmptyObj, byTemplate |-> EmptyObj, projectTypes |-> EmptyObj,
   totalItems |-> 0, totalApproved |-> 0]

OrNew(o, k, new) == IF ObjHas(o, k) THEN ObjGet(o, k) ELSE new

Bump(cond) == IF cond THEN 1 ELSE 0

\* A slip: the approved item counted where its key is new only.
AggItemFirstOnly(acc, tid, item) ==
  LET key == IF item.heuristicKey # <<>> THEN item.heuristicKey
             ELSE deriveHeuristicKey(item)
      isNew == ~ObjHas(acc.byHeuristic, key)
      h == OrNew(acc.byHeuristic, key, NewHeuristic)
      t == ObjGet(acc.byTemplate, tid)
  IN [acc EXCEPT
        !.totalItems = @ + 1,
        !.totalApproved = @ + Bump(isNew /\ item.status = S_approved),
        !.byHeuristic = ObjPut(@, key,
           [total |-> h.total + 1,
            approved |-> h.approved + Bump(item.status = S_approved),
            skipped |-> h.skipped + Bump(item.status = S_skipped),
            modified |-> h.modified + Bump(item.status = S_modified)]),
        !.byTemplate = ObjPut(@, tid,
           [t EXCEPT !.totalItems = @ + 1,
                     !.approved = @ + Bump(item.status = S_approved)])]

\* A slip: the template's items counted where they are approved only.
AggItemTemplateApproved(acc, tid, item) ==
  LET key == IF item.heuristicKey # <<>> THEN item.heuristicKey
             ELSE deriveHeuristicKey(item)
      h == OrNew(acc.byHeuristic, key, NewHeuristic)
      t == ObjGet(acc.byTemplate, tid)
  IN [acc EXCEPT
        !.totalItems = @ + 1,
        !.totalApproved = @ + Bump(item.status = S_approved),
        !.byHeuristic = ObjPut(@, key,
           [total |-> h.total + 1,
            approved |-> h.approved + Bump(item.status = S_approved),
            skipped |-> h.skipped + Bump(item.status = S_skipped),
            modified |-> h.modified + Bump(item.status = S_modified)]),
        !.byTemplate = ObjPut(@, tid,
           [t EXCEPT !.totalItems = @ + Bump(item.status = S_approved),
                     !.approved = @ + Bump(item.status = S_approved)])]

\* One turn of the inner loop (lines 197-214).
AggItem(acc, tid, item) ==
  LET key == IF item.heuristicKey # <<>> THEN item.heuristicKey
             ELSE deriveHeuristicKey(item)
      h == OrNew(acc.byHeuristic, key, NewHeuristic)
      t == ObjGet(acc.byTemplate, tid)
  IN [acc EXCEPT
        !.totalItems = @ + 1,
        !.totalApproved = @ + Bump(item.status = S_approved),
        !.byHeuristic = ObjPut(@, key,
           [total |-> h.total + 1,
            approved |-> h.approved + Bump(item.status = S_approved),
            skipped |-> h.skipped + Bump(item.status = S_skipped),
            modified |-> h.modified + Bump(item.status = S_modified)]),
        !.byTemplate = ObjPut(@, tid,
           [t EXCEPT !.totalItems = @ + 1,
                     !.approved = @ + Bump(item.status = S_approved)])]

RECURSIVE AggItems(_, _, _, _)
AggItems(acc, tid, items, i) ==
  IF i > Len(items) THEN acc
  ELSE Apply(LAMBDA next : AggItems(next, tid, items, i + 1), AggItem(acc, tid, items[i]))

\* A slip: a session without items left out of the tallies.
AggRecordSkipsEmpty(acc, record) ==
  LET pt == IF record.projectType # <<>> THEN record.projectType ELSE <<"u","n","k","n","o","w","n">>
      tid == IF record.templateId # <<>> THEN record.templateId ELSE <<"n","o","n","e">>
      t == OrNew(acc.byTemplate, tid, NewTemplate)
  IN IF record.items = <<>> THEN acc
     ELSE Apply(LAMBDA opened : AggItems(opened, tid, record.items, 1),
                [acc EXCEPT
                   !.projectTypes = ObjPut(@, pt, OrNew(@, pt, 0) + 1),
                   !.byTemplate = ObjPut(@, tid, [t EXCEPT !.sessions = @ + 1])])

\* One turn of the outer loop (lines 185-215).
AggRecord(acc, record) ==
  LET pt == IF record.projectType # <<>> THEN record.projectType ELSE <<"u","n","k","n","o","w","n">>
      tid == IF record.templateId # <<>> THEN record.templateId ELSE <<"n","o","n","e">>
      t == OrNew(acc.byTemplate, tid, NewTemplate)
  IN Apply(LAMBDA opened : AggItems(opened, tid, record.items, 1),
           [acc EXCEPT
              !.projectTypes = ObjPut(@, pt, OrNew(@, pt, 0) + 1),
              !.byTemplate = ObjPut(@, tid, [t EXCEPT !.sessions = @ + 1])])

RECURSIVE AggRecords(_, _, _)
AggRecords(acc, records, i) ==
  IF i > Len(records) THEN acc
  ELSE Apply(LAMBDA next : AggRecords(next, records, i + 1), AggRecord(acc, records[i]))

aggregateFeedback(records) ==
  IF Len(records) = 0
  THEN [totalSessions |-> 0, totalItems |-> 0, overallApprovalRate |-> 0,
        byHeuristic |-> EmptyObj, byTemplate |-> EmptyObj, projectTypes |-> EmptyObj]
  ELSE Apply(LAMBDA acc :
               [totalSessions |-> Len(records),
                totalItems |-> acc.totalItems,
                overallApprovalRate |->
                  IF acc.totalItems > 0
                  THEN RoundedRate(acc.totalApproved, acc.totalItems) ELSE 0,
                byHeuristic |-> acc.byHeuristic,
                byTemplate |-> acc.byTemplate,
                projectTypes |-> acc.projectTypes],
             AggRecords(AggStart, records, 1))

(***************************************************************************)
(* aggregateFeedback                                                       *)
(***************************************************************************)

\* A hook, its key left to derive.
I_hook(status) ==
  [category |-> <<"h","o","o","k">>, name |-> <<"f","m","t">>, id |-> <<"h","1">>, event |-> <<"P","o","s","t">>,
   status |-> status, heuristicKey |-> <<>>]

\* An item with its key recorded.
I_mcp(status) ==
  [category |-> <<"m","c","p">>, name |-> <<"c","7">>, id |-> <<"m","1">>, event |-> <<>>,
   status |-> status, heuristicKey |-> <<"m","c","p",":","c","7">>]

\* An item without category and name.
I_bare(status) ==
  [category |-> <<>>, name |-> <<>>, id |-> <<"b","1">>, event |-> <<>>,
   status |-> status, heuristicKey |-> <<>>]

ItemLists ==
  { <<>>,
    << I_hook(S_approved) >>,
    << I_hook(S_approved), I_mcp(S_approved), I_bare(S_approved) >>,
    << I_hook(S_approved), I_mcp(S_skipped) >>,
    << I_mcp(S_modified), I_bare(<<"p","e","n","d","i","n","g">>), I_hook(S_skipped) >> }

FeedbackRecords ==
  [projectType : {<<"n","o","d","e">>}, templateId : {<<"t","1">>}, items : ItemLists]
  \cup [projectType : {<<>>}, templateId : {<<>>}, items : ItemLists]

MaxRecords == 3

InitAgg ==
  /\ pc = "call"
  /\ op = "aggregateFeedback"
  /\ input \in SeqsUpTo(FeedbackRecords, MaxRecords)
  /\ arg = input
  /\ res = <<>>

AggregateFeedback ==
  /\ pc = "call"
  /\ op = "aggregateFeedback"
  /\ res' = aggregateFeedback(arg)
  /\ pc' = "done"
  /\ UNCHANGED <<op, input, arg>>

NextAgg == AggregateFeedback

SpecAgg == InitAgg /\ [][NextAgg]_vars

AggDone == pc = "done" /\ op = "aggregateFeedback"

AllApproved(records) ==
  \A r \in 1..Len(records) :
    \A i \in 1..Len(records[r].items) : records[r].items[i].status = S_approved

NoItems(records) == \A r \in 1..Len(records) : records[r].items = <<>>

AllZero ==
  /\ res.totalSessions = 0
  /\ res.totalItems = 0
  /\ res.overallApprovalRate = 0
  /\ res.byHeuristic = EmptyObj
  /\ res.byTemplate = EmptyObj
  /\ res.projectTypes = EmptyObj

\* C10 as stated: aggregateFeedback([]) returns totalSessions 0,
\* totalItems 0, overallApprovalRate 0 and empty byHeuristic, byTemplate and
\* projectTypes; on any N records in which every item is approved the
\* overallApprovalRate is 100.
C10_AllApprovedIsHundred ==
  AggDone =>
    /\ input = <<>> => AllZero
    /\ (Len(input) >= 1 /\ AllApproved(input)) => res.overallApprovalRate = 100

\* C10, amended: aggregateFeedback([]) returns totalSessions 0,
\* totalItems 0, overallApprovalRate 0 and empty byHeuristic, byTemplate and
\* projectTypes; on any records that hold an item at least, every item
\* approved, the overallApprovalRate is 100; on records that hold no item
\* it is 0.
C10_ApprovedItemsAreHundred ==
  AggDone =>
    /\ input = <<>> => AllZero
    /\ (AllApproved(input) /\ ~NoItems(input)) => res.overallApprovalRate = 100
    /\ NoItems(input) => res.overallApprovalRate = 0

C10_Witness ==
  /\ AggDone
  /\ Len(input) = 3
  /\ AllApproved(input)
  /\ input[1].items = <<>>
  /\ input[2].items = input[3].items
  /\ Len(input[2].items) = 3
  /\ res.totalItems = 6
  /\ res.overallApprovalRate = 100

(***************************************************************************)
(* Records, per-heuristic rates and template scores                        *)
(***************************************************************************)

S_none == <<"n","o","n","e">>

S_unknown == <<"u","n","k","n","o","w","n">>

CountStatus(items, status) ==
  Cardinality({i \in 1..Len(items) : items[i].status = status})

\* options[field], its default where the option is not given.
Opt(options, field, default) ==
  IF field \in DOMAIN options THEN options[field] ELSE default

ItemSource(item) ==
  IF "source" \in DOMAIN item /\ item.source # <<>> THEN item.source
  ELSE <<"h","e","u","r","i","s","t","i","c">>

\* record.project and record.template are the fields projectType,
\* frameworks, projectSize and templateId, templateConfidence; an option
\* that is <<>> is one not given; now is the clock's reading.
createFeedbackRecord(options, now) ==
  LET items == options.items
      total == Len(items)
      approved == CountStatus(items, S_approved)
  IN [sessionId |-> options.sessionId,
      timestamp |-> now,
      source |-> Opt(options, "source", <<"c","l","i">>),
      projectType |-> IF options.projectType = <<>> THEN S_unknown ELSE options.projectType,
      frameworks |-> Opt(options, "frameworks", <<>>),
      projectSize |-> Opt(options, "projectSize", S_unknown),
      templateId |-> IF options.templateId = <<>> THEN S_none ELSE options.templateId,
      templateConfidence |-> Opt(options, "templateConfidence", 0),
      items |-> [i \in 1..total |->
                   [id |-> items[i].id, category |-> items[i].category,
                    name |-> items[i].name, event |-> items[i].event,
                    status |-> items[i].status,
                    source |-> ItemSource(items[i]),
                    heuristicKey |-> deriveHeuristicKey(items[i])]],
      summary |-> [total |-> total,
                   approved |-> approved,
                   skipped |-> CountStatus(items, S_skipped),
                   modified |-> CountStatus(items, S_modified),
                   approvalRate |-> IF total > 0 THEN RoundedRate(approved, total) ELSE 0]]

HeuristicRow(entry) ==
  [key |-> entry.k,
   total |-> entry.v.total,
   approved |-> entry.v.approved,
   skipped |-> entry.v.skipped,
   modified |-> entry.v.modified,
   approvalRate |-> IF entry.v.total > 0
                    THEN RoundedRate(entry.v.approved, entry.v.total) ELSE 0]

HigherRate(a, b) == a.approvalRate > b.approvalRate

\* row put into rows, sorted by rate from the highest, behind the rows that
\* do not come after it: the sort is stable.
InsertByRate(rows, row) ==
  LET ahead == {i \in 1..Len(rows) : ~HigherRate(row, rows[i])}
      n == IF \A i \in 1..Len(rows) : i \in ahead THEN Len(rows)
           ELSE (CHOOSE i \in 1..Len(rows) : i \notin ahead /\ \A j \in 1..(i - 1) : j \in ahead) - 1
  IN SubSeq(rows, 1, n) \o <<row>> \o SubSeq(rows, n + 1, Len(rows))

RECURSIVE SortByRate(_, _, _)
SortByRate(rows, i, acc) ==
  IF i > Len(rows) THEN acc
  ELSE Apply(LAMBDA next : SortByRate(rows, i + 1, next), InsertByRate(acc, rows[i]))

aggregateByHeuristic(records) ==
  Apply(LAMBDA agg :
          SortByRate([i \in 1..Len(agg.byHeuristic) |-> HeuristicRow(agg.byHeuristic[i])],
                     1, <<>>),
        aggregateFeedback(records))

computeTemplateScore(templateId, templateStats) ==
  LET approvalRate == IF templateStats.totalItems > 0
                      THEN RoundedRate(templateStats.approved, templateStats.totalItems)
                      ELSE 0
  IN [templateId |-> templateId,
      approvalRate |-> approvalRate,
      sessions |-> templateStats.sessions,
      totalItems |-> templateStats.totalItems,
      approved |-> templateStats.approved,
      tier |-> getQualityTier(approvalRate, templateStats.sessions).tier]

\* A slip: the entry of none scored like a template's.
RECURSIVE ScoresFromAll(_, _, _)
ScoresFromAll(byTemplate, i, scores) ==
  IF i > Len(byTemplate) THEN scores
  ELSE Apply(LAMBDA next : ScoresFromAll(byTemplate, i + 1, next),
             ObjPut(scores, byTemplate[i].k,
                    computeTemplateScore(byTemplate[i].k, byTemplate[i].v)))

RECURSIVE ScoresFrom(_, _, _)
ScoresFrom(byTemplate, i, scores) ==
  IF i > Len(byTemplate) THEN scores
  ELSE IF byTemplate[i].k = S_none THEN ScoresFrom(byTemplate, i + 1, scores)
  ELSE Apply(LAMBDA next : ScoresFrom(byTemplate, i + 1, next),
             ObjPut(scores, byTemplate[i].k,
                    computeTemplateScore(byTemplate[i].k, byTemplate[i].v)))

\* records: what loadAllFeedback returned.
getAllTemplateScores(records) ==
  Apply(LAMBDA agg : ScoresFrom(agg.byTemplate, 1, EmptyObj), aggregateFeedback(records))

(***************************************************************************)
(* Approval rates                                                          *)
(***************************************************************************)

MaxTotal == 40

\* total items of one heuristic, approved of them approved, the approved
\* ones first or last.
RateItems(approved, total, approvedFirst) ==
  [i \in 1..total |->
     I_mcp(IF (approvedFirst /\ i <= approved) \/ (~approvedFirst /\ i > total - approved)
           THEN S_approved ELSE S_skipped)]

RateOptions ==
  { [sessionId |-> <<"s","1">>, projectType |-> <<"n","o","d","e">>, templateId |-> <<"t","1">>,
     items |-> RateItems(c.approved, c.total, c.first)] :
      c \in {d \in [approved : 0..MaxTotal, total : 0..MaxTotal, first : BOOLEAN] :
               d.approved <= d.total} }

RateOps == {"createFeedbackRecord", "aggregateFeedback", "aggregateByHeuristic",
            "getAllTemplateScores"}

T_now == <<"2","0","2","6","-","0","1","-","0","1","T","0","0",":","0","0",":","0","0",".","0","0","0","Z">>

InitRate ==
  /\ pc = "call"
  /\ op \in RateOps
  /\ input \in RateOptions
  /\ arg = IF op = "createFeedbackRecord" THEN input
           ELSE << createFeedbackRecord(input, T_now) >>
  /\ res = <<>>

CreateFeedbackRecord ==
  /\ pc = "call"
  /\ op = "createFeedbackRecord"
  /\ res' = createFeedbackRecord(arg, T_now)
  /\ pc' = "done"
  /\ UNCHANGED <<op, input, arg>>

AggregateByHeuristic ==
  /\ pc = "call"
  /\ op = "aggregateByHeuristic"
  /\ res' = aggregateByHeuristic(arg)
  /\ pc' = "done"
  /\ UNCHANGED <<op, input, arg>>

GetAllTemplateScores ==
  /\ pc = "call"
  /\ op = "getAllTemplateScores"
  /\ res' = getAllTemplateScores(arg)
  /\ pc' = "done"
  /\ UNCHANGED <<op, input, arg>>

NextRate ==
  \/ CreateFeedbackRecord
  \/ AggregateFeedback
  \/ AggregateByHeuristic
  \/ GetAllTemplateScores

SpecRate == InitRate /\ [][NextRate]_vars

RateDone == pc = "done" /\ op \in RateOps

\* The rates of the result, each with the counts it was taken from.
RatesOf(o, r) ==
  IF o = "createFeedbackRecord"
  THEN { [rate |-> r.summary.approvalRate, approved |-> r.summary.approved,
          total |-> r.summary.total] }
  ELSE IF o = "aggregateFeedback"
  THEN { [rate |-> r.overallApprovalRate,
          approved |-> CountStatus(input.items, S_approved), total |-> r.totalItems] }
  ELSE IF o = "aggregateByHeuristic"
  THEN { [rate |-> r[i].approvalRate, approved |-> r[i].approved, total |-> r[i].total] :
           i \in 1..Len(r) }
  ELSE { [rate |-> r[i].v.approvalRate, approved |-> r[i].v.approved,
          total |-> r[i].v.totalItems] : i \in 1..Len(r) }

\* C11 as stated: every approval rate the program reports (a record's
\* summary, the overall rate, a heuristic's rate, a template's score) is
\* round(100 * approved / total) with halves rounded up, is 0 when total is
\* 0, and lies in 0..100.
C11_RateIsRoundedHalfUp ==
  RateDone =>
    \A x \in RatesOf(op, res) :
      /\ x.approved <= x.total
      /\ x.rate \in 0..100
      /\ x.total = 0 => x.rate = 0
      /\ x.total > 0 => x.rate = RoundedRateExact(x.approved, x.total)

\* 23 of 40 approved: 57.5 exactly, 57.49999999999999 as the program
\* computes it, and the rate reported is 57.
C11_HalfRoundedDown ==
  /\ RateDone
  /\ op = "aggregateFeedback"
  /\ res.totalItems = 40
  /\ CountStatus(input.items, S_approved) = 23
  /\ RoundedRateExact(23, 40) = 58
  /\ res.overallApprovalRate = 57

(***************************************************************************)
(* generateInsights                                                        *)
(***************************************************************************)

HIGH_THRESHOLD == 90

LOW_THRESHOLD == 60

MIN_SAMPLES == 3

IsHighValue(h) == h.approvalRate >= HIGH_THRESHOLD /\ h.total >= MIN_SAMPLES

\* A slip: the least number of samples not asked of a low value.
IsLowValueAnyTotal(h) == h.approvalRate < LOW_THRESHOLD

IsLowValue(h) == h.approvalRate < LOW_THRESHOLD /\ h.total >= MIN_SAMPLES

\* A suggestion is the kind of its sentence and the values written into it.
OptInSuggestion(h) == <<"opt-in", h.key, h.approvalRate, h.approved, h.total>>

TemplateRate(data) ==
  IF data.totalItems > 0 THEN RoundedRate(data.approved, data.totalItems) ELSE 0

\* A slip: the session threshold of the tier validated taken for the one
\* of a review.
NeedsReviewFiveSessions(entry) ==
  /\ entry.k # S_none
  /\ entry.v.sessions >= 5
  /\ TemplateRate(entry.v) < 70

\* A slip: the template id none reviewed like any other.
NeedsReviewAnyId(entry) ==
  /\ entry.v.sessions >= 3
  /\ TemplateRate(entry.v) < 70

NeedsReview(entry) ==
  /\ entry.k # S_none
  /\ entry.v.sessions >= 3
  /\ TemplateRate(entry.v) < 70

ReviewSuggestion(entry) == <<"review", entry.k, TemplateRate(entry.v), entry.v.sessions>>

\* s.includes(pat) for a text pat.
IncludesText(s, pat) == FindSub(s, pat, 1) # 0

hasTemplate(byTemplate, pt) ==
  \E i \in 1..Len(byTemplate) :
    byTemplate[i].k # S_none /\ IncludesText(byTemplate[i].k, ToLowerCase(pt))

Unserved(byTemplate, entry) ==
  /\ entry.k # S_unknown
  /\ entry.v >= 3
  /\ ~hasTemplate(byTemplate, entry.k)

NoTemplateSuggestion(entry) == <<"no-template", entry.k, entry.v>>

MapSeq(s, f(_)) == [i \in 1..Len(s) |-> f(s[i])]

generateInsights(records) ==
  Apply2(LAMBDA heuristics, agg :
           LET lowValue == SelectSeq(heuristics, IsLowValue)
           IN [highValue |-> SelectSeq(heuristics, IsHighValue),
               lowValue |-> lowValue,
               suggestions |->
                 MapSeq(lowValue, OptInSuggestion)
                   \o MapSeq(SelectSeq(agg.byTemplate, NeedsReview), ReviewSuggestion)
                   \o MapSeq(SelectSeq(agg.projectTypes,
                                       LAMBDA e : Unserved(agg.byTemplate, e)),
                             NoTemplateSuggestion),
               summary |-> [totalSessions |-> agg.totalSessions,
                            totalItems |-> agg.totalItems,
                            overallApprovalRate |-> agg.overallApprovalRate,
                            uniqueHeuristics |-> Len(heuristics)]],
         aggregateByHeuristic(records), aggregateFeedback(records))

MaxInsightRecords == 3

MaxKeyTotal == 10

\* Sessions of a project type none or node, with a template or without.
InsightRecords ==
  [projectType : {S_none, <<"N","o","d","e">>}, templateId : {<<>>, <<"n","o","d","e","-","a","p","i">>},
   items : {<< I_mcp(S_skipped) >>, << I_mcp(S_approved) >>}]
  \cup {[projectType |-> <<"N","o","d","e">>, templateId |-> S_none, items |-> << I_hook(S_skipped) >>]}

\* One session's items: total of a key, approved of them approved.
KeyItems(item(_), approved, total) ==
  [i \in 1..total |-> item(IF i <= approved THEN S_approved ELSE S_skipped)]

\* One session with the items of two heuristics, of given counts.
CountedRecords ==
  { << [projectType |-> <<"N","o","d","e">>, templateId |-> <<"n","o","d","e","-","a","p","i">>,
        items |-> KeyItems(I_hook, c.a1, c.t1) \o KeyItems(I_mcp, c.a2, c.t2)] >> :
      c \in {d \in [a1 : 0..MaxKeyTotal, t1 : 0..MaxKeyTotal,
                    a2 : 0..MaxKeyTotal, t2 : 0..MaxKeyTotal] :
               d.a1 <= d.t1 /\ d.a2 <= d.t2} }

InsightOps == {"aggregateFeedback", "getAllTemplateScores", "generateInsights"}

InitInsight ==
  /\ pc = "call"
  /\ op \in InsightOps
  /\ input \in SeqsUpTo(InsightRecords, MaxInsightRecords) \cup CountedRecords
  /\ arg = input
  /\ res = <<>>

GenerateInsights ==
  /\ pc = "call"
  /\ op = "generateInsights"
  /\ res' = generateInsights(arg)
  /\ pc' = "done"
  /\ UNCHANGED <<op, input, arg>>

NextInsight ==
  \/ AggregateFeedback
  \/ GetAllTemplateScores
  \/ GenerateInsights

SpecInsight == InitInsight /\ [][NextInsight]_vars

InsightDone == pc = "done" /\ op \in InsightOps

\* The sessions with the template id none, or with none at all.
NoneSessions(records) ==
  Cardinality({i \in 1..Len(records) : records[i].templateId \in {<<>>, S_none}})

\* The sessions of the project type pt.
TypeSessions(records, pt) ==
  Cardinality({i \in 1..Len(records) : records[i].projectType = pt})

\* A template other than none whose id holds the project type's name.
ServedBy(records, pt) ==
  \E i \in 1..Len(records) :
    /\ records[i].templateId \notin {<<>>, S_none}
    /\ IncludesText(records[i].templateId, ToLowerCase(pt))

HasSuggestion(kind, name) ==
  \E i \in 1..Len(res.suggestions) :
    res.suggestions[i][1] = kind /\ res.suggestions[i][2] = name

\* C12: the sessions with the template id none, or with no template id,
\* are tallied under byTemplate["none"]; none gets no quality score from
\* getAllTemplateScores, no review suggestion from generateInsights, and
\* does not count there as a template serving a project type.
C12_NoneIsNoTemplate ==
  InsightDone =>
    /\ op = "aggregateFeedback" =>
         IF NoneSessions(input) = 0 THEN ~ObjHas(res.byTemplate, S_none)
         ELSE /\ ObjHas(res.byTemplate, S_none)
              /\ ObjGet(res.byTemplate, S_none).sessions = NoneSessions(input)
    /\ op = "getAllTemplateScores" => ~ObjHas(res, S_none)
    /\ op = "generateInsights" =>
         /\ ~HasSuggestion("review", S_none)
         /\ \A i \in 1..Len(input) :
              LET pt == input[i].projectType
              IN (pt # S_unknown /\ TypeSessions(input, pt) >= 3 /\ ~ServedBy(input, pt))
                   => HasSuggestion("no-template", pt)

\* Three sessions of the project type none without a template, nothing
\* approved: none is not reviewed, and the type none is reported unserved.
C12_Witness ==
  /\ InsightDone
  /\ op = "generateInsights"
  /\ Len(input) = 3
  /\ NoneSessions(input) = 3
  /\ TypeSessions(input, S_none) = 3
  /\ res.summary.overallApprovalRate = 0
  /\ HasSuggestion("no-template", S_none)
  /\ ~HasSuggestion("review", S_none)

ItemKey(item) ==
  IF item.heuristicKey # <<>> THEN item.heuristicKey ELSE deriveHeuristicKey(item)

\* The heuristic keys of the items of the records.
KeysOf(records) ==
  UNION { {ItemKey(records[r].items[i]) : i \in 1..Len(records[r].items)} :
            r \in 1..Len(records) }

\* The items of the key in the first r records, all of them or the approved
\* ones.
RECURSIVE KeyCount(_, _, _, _)
KeyCount(records, key, approvedOnly, r) ==
  IF r = 0 THEN 0
  ELSE KeyCount(records, key, approvedOnly, r - 1)
         + Cardinality({i \in 1..Len(records[r].items) :
                          /\ ItemKey(records[r].items[i]) = key
                          /\ approvedOnly => records[r].items[i].status = S_approved})

InValue(list, key) == \E i \in 1..Len(list) : list[i].key = key

TemplateOf(record) == IF record.templateId # <<>> THEN record.templateId ELSE S_none

TypeOf(record) == IF record.projectType # <<>> THEN record.projectType ELSE S_unknown

RECURSIVE SumSessions(_, _)
SumSessions(byTemplate, i) ==
  IF i = 0 THEN 0 ELSE SumSessions(byTemplate, i - 1) + byTemplate[i].v.sessions

RECURSIVE SumCounts(_, _)
SumCounts(projectTypes, i) ==
  IF i = 0 THEN 0 ELSE SumCounts(projectTypes, i - 1) + projectTypes[i].v

\* C20: every record, one without items too, adds 1 to the sessions of its
\* template id and 1 to the count of its project type; the sessions of
\* byTemplate and the counts of projectTypes both add up to totalSessions,
\* the number of records.
C20_OneSessionPerRecord ==
  AggDone =>
    /\ res.totalSessions = Len(input)
    /\ SumSessions(res.byTemplate, Len(res.byTemplate)) = Len(input)
    /\ SumCounts(res.projectTypes, Len(res.projectTypes)) = Len(input)
    /\ \A r \in 1..Len(input) :
         /\ ObjHas(res.byTemplate, TemplateOf(input[r]))
         /\ ObjGet(res.byTemplate, TemplateOf(input[r])).sessions =
              Cardinality({q \in 1..Len(input) : TemplateOf(input[q]) = TemplateOf(input[r])})
         /\ ObjHas(res.projectTypes, TypeOf(input[r]))
         /\ ObjGet(res.projectTypes, TypeOf(input[r])) =
              Cardinality({q \in 1..Len(input) : TypeOf(input[q]) = TypeOf(input[r])})

\* Three sessions, two of them without a template and one of these without
\* items.
C20_Witness ==
  /\ AggDone
  /\ Len(input) = 3
  /\ input[1].items = <<>>
  /\ input[1].templateId = <<>>
  /\ input[2].templateId = <<>>
  /\ input[2].items # <<>>
  /\ input[3].templateId # <<>>
  /\ ObjGet(res.byTemplate, S_none).sessions = 2
  /\ ObjGet(res.projectTypes, S_unknown) = 2
  /\ res.totalSessions = 3

(***************************************************************************)
(* listTemplates (src/src/templates.mjs)                                   *)
(***************************************************************************)

IdCell == <<"i","d">>

\* One turn of the loop of parseIndex (lines 39-68).
IndexLine(st, line) ==
  LET trimmed == Trim(line)
      cells == RowCells(trimmed)
  IN IF ~StartsWith(trimmed, <<"|">>) THEN st
     ELSE IF Len(cells) < 4 THEN st
     ELSE IF ToLowerCase(cells[1]) = IdCell THEN [st EXCEPT !.inTable = TRUE]
     ELSE IF StartsWith(cells[1], <<"-">>) THEN st
     ELSE IF st.inTable
          THEN [st EXCEPT !.templates = Append(st.templates,
                  [id |-> cells[1], name |-> cells[2],
                   description |-> cells[3], file |-> cells[4]])]
     ELSE st

IndexStart == [inTable |-> FALSE, templates |-> <<>>]

RECURSIVE IndexScan(_, _, _)
IndexScan(st, lines, i) ==
  IF i > Len(lines) THEN st
  ELSE Apply(LAMBDA next : IndexScan(next, lines, i + 1), IndexLine(st, lines[i]))

parseIndex(content) ==
  Apply(LAMBDA lines : IndexScan(IndexStart, lines, 1), Split(content, NL)).templates

\* index: the file _index.md of the directory, readable or not.
listTemplates(index) ==
  IF ~index.readable THEN <<>> ELSE parseIndex(index.content)

X_header == << <<"I","D">>, <<"N","a","m","e">>, <<"D","e","s","c","r","i","p","t","i","o","n">>, <<"F","i","l","e">> >>

X_separator == << <<"-","-","-","-">>, <<"-","-","-","-">>, <<"-","-","-","-">>, <<"-","-","-","-">> >>

X_a == << <<"a">>, <<"A">>, <<"d"," ","1">>, <<"a",".","m","d">> >>

\* The id of X_a once more, with another file.
X_again == << <<"a">>, <<"A","2">>, <<"d"," ","2">>, <<"a","2",".","m","d">> >>

X_b == << <<"b">>, <<"B">>, <<"d"," ","3">>, <<"b",".","m","d">> >>

X_text == << <<"c">>, <<"C">> >>

IndexRows == {X_header, X_separator, X_a, X_again, X_b, X_text}

MaxIndexRows == 4

InitIndex ==
  /\ pc = "call"
  /\ op = "listTemplates"
  /\ input \in [readable : BOOLEAN, rows : SeqsUpTo(IndexRows, MaxIndexRows)]
  /\ arg = [readable |-> input.readable, content |-> TableText(input.rows)]
  /\ res = <<>>

ListTemplates ==
  /\ pc = "call"
  /\ op = "listTemplates"
  /\ res' = listTemplates(arg)
  /\ pc' = "done"
  /\ UNCHANGED <<op, input, arg>>

NextIndex == ListTemplates

SpecIndex == InitIndex /\ [][NextIndex]_vars

IndexDone == pc = "done" /\ op = "listTemplates"

\* The rows of entries that follow a header row, in table order.
RECURSIVE EntryRows(_, _, _)
EntryRows(rows, i, seen) ==
  IF i > Len(rows) THEN <<>>
  ELSE IF rows[i] = X_header THEN EntryRows(rows, i + 1, TRUE)
  ELSE IF seen /\ rows[i] \in {X_a, X_again, X_b}
       THEN << [id |-> rows[i][1], name |-> rows[i][2],
                description |-> rows[i][3], file |-> rows[i][4]] >>
              \o EntryRows(rows, i + 1, seen)
  ELSE EntryRows(rows, i + 1, seen)

\* C17 as stated: listTemplates on one directory returns the rows of the
\* index in table order, no two entries with the same id, and the empty
\* list when the index file is missing or unreadable.
C17_TableOrderDistinctIds ==
  IndexDone =>
    /\ ~input.readable => res = <<>>
    /\ input.readable =>
         /\ res = EntryRows(input.rows, 1, FALSE)
         /\ \A i, j \in 1..Len(res) : res[i].id = res[j].id => i = j

\* An index whose table holds the id a in two rows: both are returned.
C17_SameIdTwice ==
  /\ IndexDone
  /\ input.readable
  /\ input.rows = << X_header, X_separator, X_a, X_again >>
  /\ Len(res) = 2
  /\ res[1].id = res[2].id
  /\ res[1].file # res[2].file

(***************************************************************************)
(* Section spans                                                           *)
(***************************************************************************)

P_claude == <<"#","#"," ","c","l","a","u","d","e","_","m","d">>

P_Claude == <<" "," ","#","#"," ","C","l","a","u","d","e","_","M","D"," ">>

P_notes == <<"#","#"," ","n","o","t","e","s">>

P_text == <<" ","y"," ","z"," ">>

SpanVocab == {P_claude, P_Claude, P_notes, P_text, L_text, L_fence}

MaxSpanLines == 4

InitSpan ==
  /\ pc = "call"
  /\ op \in {"findTopLevelSections", "extractSections"}
  /\ input \in [lines : SeqsUpTo(SpanVocab, MaxSpanLines), nl : BOOLEAN]
  /\ arg = TextOf(input)
  /\ res = <<>>

ExtractSections ==
  /\ pc = "call"
  /\ op = "extractSections"
  /\ res' = extractSections(arg)
  /\ pc' = "done"
  /\ UNCHANGED <<op, input, arg>>

NextSpan == FindTopLevelSections \/ ExtractSections

SpecSpan == InitSpan /\ [][NextSpan]_vars

SpanDone == pc = "done" /\ op \in {"findTopLevelSections", "extractSections"}

\* The section headings of the lines, in document order.
HeadSeq(lines) ==
  LET heads == SectionHeads(lines)
  IN [k \in 1..Cardinality(heads) |->
        CHOOSE i \in heads : Cardinality({j \in heads : j < i}) = k - 1]

\* The text from the end of line k to the start of line next, to the end of
\* the text when there is no line next.
RECURSIVE TextBetween(_, _, _)
TextBetween(in, k, next) ==
  IF k + 1 >= next
  THEN IF next <= Len(in.lines) \/ in.nl THEN <<NL>> ELSE <<>>
  ELSE <<NL>> \o in.lines[k + 1] \o TextBetween(in, k + 1, next)

SpanStart(starts, i) == starts[i].index + Len(starts[i].fullMatch)

SpanEnd(starts, i, text) == IF i < Len(starts) THEN starts[i + 1].index ELSE Len(text)

KnownSections == {N_claude_md, N_hooks, N_skills, N_agents, N_mcp_servers, N_external_skills}

\* The lines without the sections of an unknown name: their heading lines
\* and the lines under them.
WithoutUnknown(lines) ==
  LET heads == SectionHeads(lines)
      Owner(j) == CHOOSE i \in heads : i <= j /\ \A h \in heads : h <= j => h <= i
      Keep(j) == (\A i \in heads : i > j) \/ HeadName(lines[Owner(j)]) \in KnownSections
  IN SelectSeq([j \in 1..Len(lines) |-> [n |-> j, line |-> lines[j]]],
               LAMBDA e : Keep(e.n))

LinesOf(numbered) == [j \in 1..Len(numbered) |-> numbered[j].line]

\* C19: the content of a section found runs from just after its heading
\* line to just before the next heading found, to the end of the text for
\* the last one; the spans are disjoint and in document order; a heading of
\* an unknown name yields nothing, ends the span of the section before it
\* and leaves the value of every known section as it is without it.
C19_SpansOfSections ==
  SpanDone =>
    /\ op = "findTopLevelSections" =>
         LET heads == HeadSeq(input.lines)
         IN /\ Len(res) = Len(heads)
            /\ \A i \in 1..Len(res) :
                 /\ res[i].index = LineOffset(input.lines, heads[i])
                 /\ res[i].fullMatch = input.lines[heads[i]]
                 /\ SpanStart(res, i) <= SpanEnd(res, i, arg)
                 /\ i < Len(res) => SpanEnd(res, i, arg) < SpanStart(res, i + 1)
                 /\ Slice(arg, SpanStart(res, i), SpanEnd(res, i, arg)) =
                      TextBetween(input, heads[i],
                                  IF i < Len(heads) THEN heads[i + 1]
                                  ELSE Len(input.lines) + 1)
    /\ op = "extractSections" =>
         /\ res.claude_md = SectionText(input.lines, N_claude_md)
         /\ [res EXCEPT !.claude_md = <<>>] = NoSections
         /\ res = extractSections(
                    TextOf([input EXCEPT !.lines = LinesOf(WithoutUnknown(@))]))

\* Text under claude_md, then a section of an unknown name with text of its
\* own: the value of claude_md ends at the unknown heading.
C19_Witness ==
  /\ SpanDone
  /\ op = "extractSections"
  /\ input.lines = << P_Claude, P_text, P_notes, L_text >>
  /\ res.claude_md = <<"y"," ","z">>

(***************************************************************************)
(* Merging into existing files (src/src/utils.mjs)                         *)
(***************************************************************************)

\* What readFileIfExists returns: null, or the text of the file.
NoFile == [found |-> FALSE, text |-> <<>>]

FileText(text) == [found |-> TRUE, text |-> text]

Undefined == <<"undefined", <<>>>>

\* v[k] for a JSON value v that is not null.
JsonProp(v, k) ==
  IF Tag(v) = "obj" /\ ObjHas(Val(v), k) THEN ObjGet(Val(v), k) ELSE Undefined

JsonTruthy(v) == v # Undefined /\ ~JsonFalsy(v)

\* a === b: objects and arrays parsed apart are never the same one.
StrictEq(a, b) ==
  IF Tag(a) \in {"obj", "arr"} \/ Tag(b) \in {"obj", "arr"} THEN FALSE
  ELSE a = b

IndexKeys == << <<"0">>, <<"1">>, <<"2">>, <<"3">>, <<"4">>, <<"5">>, <<"6">>, <<"7">>, <<"8">>, <<"9">> >>

\* Object.entries(v) for a JSON value v: the members of an object, the
\* elements of an array of up to ten under their indexes, nothing for a
\* number or a literal.
JsonEntries(v) ==
  IF Tag(v) = "obj" THEN Val(v)
  ELSE IF Tag(v) = "arr" THEN [i \in 1..Len(Val(v)) |-> [k |-> IndexKeys[i], v |-> Val(v)[i]]]
  ELSE <<>>

\* existing ? JSON.parse(existing) : {}, {} where the parse throws.
ParsedOrEmpty(existing) ==
  IF ~existing.found \/ existing.text = <<>> THEN JObj(EmptyObj)
  ELSE Apply(LAMBDA p : IF p.ok THEN p.val ELSE JObj(EmptyObj), JsonParse(existing.text))

S_matcher == <<"m","a","t","c","h","e","r">>

S_command == <<"c","o","m","m","a","n","d">>

SameHook(h, hook) ==
  /\ StrictEq(JsonProp(h, S_matcher), JsonProp(hook, S_matcher))
  /\ StrictEq(JsonProp(h, S_command), JsonProp(hook, S_command))

\* list.some((h) => h.matcher === hook.matcher && h.command === hook.command):
\* "throw" where h or hook is null at the first entry that is looked at.
HookExists(list, hook) ==
  LET Null(i) == list[i] = JLit(JsonNull) \/ hook = JLit(JsonNull)
      stops == {i \in 1..Len(list) : Null(i) \/ SameHook(list[i], hook)}
      first == CHOOSE i \in stops : \A j \in stops : i <= j
  IN IF stops = {} THEN "no"
     ELSE IF Null(first) THEN "throw"
     ELSE "yes"

\* A slip: the hook is pushed without a look at the list.
MergeHookAlways(st, event, hook) ==
  IF st.threw THEN st
  ELSE LET cur == ObjGet(st.obj, event)
       IN IF Tag(cur) # "arr" THEN [st EXCEPT !.threw = TRUE]
          ELSE [st EXCEPT !.obj = ObjPut(@, event, JArr(Append(Val(cur), hook)))]

\* The inner loop of mergeSettingsJson (lines 95-102) for one hook; st is
\* the settings object so far, or the throw.
MergeHook(st, event, hook) ==
  IF st.threw THEN st
  ELSE LET cur == ObjGet(st.obj, event)
           exists == HookExists(Val(cur), hook)
       IN IF Tag(cur) # "arr" THEN [st EXCEPT !.threw = TRUE]
          ELSE IF exists = "throw" THEN [st EXCEPT !.threw = TRUE]
          ELSE IF exists = "yes" THEN st
          ELSE [st EXCEPT !.obj = ObjPut(@, event, JArr(Append(Val(cur), hook)))]

RECURSIVE MergeHooks(_, _, _, _)
MergeHooks(st, event, hookList, i) ==
  IF i > Len(hookList) THEN st
  ELSE Apply(LAMBDA next : MergeHooks(next, event, hookList, i + 1),
             MergeHook(st, event, hookList[i]))

\* One turn of the outer loop of mergeSettingsJson (lines 91-103).
MergeEvent(st, entry) ==
  IF st.threw \/ Tag(entry.v) # "arr" THEN st
  ELSE Apply(LAMBDA opened : MergeHooks(opened, entry.k, Val(entry.v), 1),
             IF JsonTruthy(JsonProp(JObj(st.obj), entry.k)) THEN st
             ELSE [st EXCEPT !.obj = ObjPut(@, entry.k, JArr(<<>>))])

RECURSIVE MergeEvents(_, _, _)
MergeEvents(st, entries, i) ==
  IF i > Len(entries) THEN st
  ELSE Apply(LAMBDA next : MergeEvents(next, entries, i + 1), MergeEvent(st, entries[i]))

HasList(entries) == \E i \in 1..Len(entries) : Tag(entries[i].v) = "arr"

\* existing: null or a text that does not parse to an array. threw: a
\* TypeError leaves the function; text: the value returned. A property of
\* null cannot be read, and a property of a number, a string or a boolean
\* cannot be set in a module.
mergeSettingsJson(existing, newHooks) ==
  Apply(LAMBDA settings :
          IF Tag(settings) = "obj"
          THEN Apply(LAMBDA st :
                       IF st.threw THEN [threw |-> TRUE, text |-> <<>>]
                       ELSE [threw |-> FALSE, text |-> JsonStringify(JObj(st.obj), <<>>)],
                     MergeEvents([threw |-> FALSE, obj |-> Val(settings)],
                                 JsonEntries(newHooks), 1))
          ELSE IF HasList(JsonEntries(newHooks)) THEN [threw |-> TRUE, text |-> <<>>]
          ELSE [threw |-> FALSE, text |-> JsonStringify(settings, <<>>)],
        ParsedOrEmpty(existing))

S_mcpServers == <<"m","c","p","S","e","r","v","e","r","s">>

\* One turn of the loop of mergeMcpJson (lines 121-125); servers is the
\* value of mcp.mcpServers.
MergeServer(st, entry) ==
  IF st.threw THEN st
  ELSE IF Tag(st.servers) = "obj"
  THEN IF JsonTruthy(JsonProp(st.servers, entry.k)) THEN st
       ELSE [st EXCEPT !.servers = JObj(ObjPut(Val(@), entry.k, entry.v))]
  ELSE [st EXCEPT !.threw = TRUE]

RECURSIVE MergeServers(_, _, _)
MergeServers(st, entries, i) ==
  IF i > Len(entries) THEN st
  ELSE Apply(LAMBDA next : MergeServers(next, entries, i + 1), MergeServer(st, entries[i]))

\* existing: null or a text that parses neither to an array nor to an
\* object with an array or a string under mcpServers.
mergeMcpJson(existing, newServers) ==
  Apply(LAMBDA mcp :
          IF Tag(mcp) # "obj" THEN [threw |-> TRUE, text |-> <<>>]
          ELSE Apply(LAMBDA st :
                       IF st.threw THEN [threw |-> TRUE, text |-> <<>>]
                       ELSE [threw |-> FALSE,
                             text |-> JsonStringify(
                                        JObj(ObjPut(Val(mcp), S_mcpServers, st.servers)), <<>>)],
                     MergeServers([threw |-> FALSE,
                                   servers |-> IF JsonTruthy(JsonProp(mcp, S_mcpServers))
                                               THEN JsonProp(mcp, S_mcpServers)
                                               ELSE JObj(EmptyObj)],
                                  JsonEntries(newServers), 1)),
        ParsedOrEmpty(existing))

(***************************************************************************)
(* init (src/src/commands/init.mjs)                                        *)
(***************************************************************************)

ATTRIBUTION ==
  <<"-","-","-",NL,">"," ","C","o","n","f","i","g","u","r","e","d"," ","w","i","t","h"," ","[",BT,"a","g","e","n","t","i","c","-","r","i","g",BT,"]","(","h","t","t","p","s",":","/","/","n","p","m","j","s",".","c","o","m","/","p","a","c","k","a","g","e","/","a","g","e","n","t","i","c","-","r","i","g",")",NL>>

\* The fixed text of the pattern of line 91.
AttributionMark == <<"-","-","-",NL,">"," ","C","o","n","f","i","g","u","r","e","d"," ","w","i","t","h"," ","[",BT,"a","g","e","n","t","i","c","-","r","i","g",BT,"]">>

\* existing.replace(/\n?---\n> Configured with \[`agentic-rig`\].*[\s]*$/, "")
\* .trimEnd(): the pattern matches where the fixed text stands and only
\* white space follows the end of its line; the first such place counts.
StripAttribution(existing) ==
  LET n == Len(AttributionMark)
      Tail0(i) == SubSeq(existing, i + n, Len(existing))
      TailOk(i) ==
        \E cut \in 0..Len(Tail0(i)) :
          /\ \A j \in 1..cut : Tail0(i)[j] # NL
          /\ \A j \in (cut + 1)..Len(Tail0(i)) : IsSpace(Tail0(i)[j])
      hits == {i \in 1..(Len(existing) - n + 1) :
                 SubSeq(existing, i, i + n - 1) = AttributionMark /\ TailOk(i)}
  IN IF hits = {} THEN TrimEnd(existing)
     ELSE TrimEnd(SubSeq(existing, 1, (CHOOSE i \in hits : \A j \in hits : i <= j) - 1))

S_name == <<"n","a","m","e">>

\* `${template.meta.name}` for a name that is a string, a number or missing.
MetaName(meta) ==
  IF ObjHas(meta, S_name) THEN Val(ObjGet(meta, S_name)) ELSE <<"u","n","d","e","f","i","n","e","d">>

\* The content planned for CLAUDE.md (lines 87-96).
claudeMdContent(existing, template) ==
  IF existing.found /\ existing.text # <<>>
  THEN StripAttribution(existing.text) \o <<NL, NL>> \o Trim(template.claude_md)
         \o <<NL, NL>> \o ATTRIBUTION
  ELSE <<"#", " ">> \o MetaName(template.meta) \o <<NL, NL>> \o Trim(template.claude_md)
         \o <<NL, NL>> \o ATTRIBUTION

P_claudeMd == <<"C","L","A","U","D","E",".","m","d">>

P_claudeDir == <<".","c","l","a","u","d","e","/">>

P_settings == <<".","c","l","a","u","d","e","/","s","e","t","t","i","n","g","s",".","j","s","o","n">>

P_mcp == <<".","c","l","a","u","d","e","/",".","m","c","p",".","j","s","o","n">>

SkillPath(name) == <<".","c","l","a","u","d","e","/","s","k","i","l","l","s","/">> \o name \o <<"/","S","K","I","L","L",".","m","d">>

AgentPath(name) == <<".","c","l","a","u","d","e","/","a","g","e","n","t","s","/">> \o name \o <<".","m","d">>

\* The directory: the files under the target by their paths, and whether
\* .claude is there.
ReadFile(world, path) ==
  IF ObjHas(world.files, path) THEN FileText(ObjGet(world.files, path)) ELSE NoFile

fileExists(world, path) == ObjHas(world.files, path)

writeFileWithDir(world, path, content) ==
  [files |-> ObjPut(world.files, path, content),
   claudeDir |-> world.claudeDir \/ StartsWith(path, P_claudeDir)]

\* Object.keys(v).length for a JSON value v that is no string.
KeysLength(v) == Len(JsonEntries(v))

NamedFiles(entries, Path(_)) ==
  [i \in 1..Len(entries) |-> [path |-> Path(entries[i].k), content |-> entries[i].v]]

\* filesToWrite (lines 81-132): threw where a merge throws.
PlanFiles(world, template) ==
  LET settings == IF KeysLength(template.hooks) > 0
                  THEN mergeSettingsJson(ReadFile(world, P_settings), template.hooks)
                  ELSE [threw |-> FALSE, text |-> <<>>]
      mcp == IF KeysLength(template.mcp_servers) > 0
             THEN mergeMcpJson(ReadFile(world, P_mcp), template.mcp_servers)
             ELSE [threw |-> FALSE, text |-> <<>>]
  IN [threw |-> settings.threw \/ mcp.threw,
      files |->
        (IF template.claude_md # <<>>
         THEN << [path |-> P_claudeMd,
                  content |-> claudeMdContent(ReadFile(world, P_claudeMd), template)] >>
         ELSE <<>>)
        \o (IF KeysLength(template.hooks) > 0
            THEN << [path |-> P_settings, content |-> settings.text] >> ELSE <<>>)
        \o (IF KeysLength(template.mcp_servers) > 0
            THEN << [path |-> P_mcp, content |-> mcp.text] >> ELSE <<>>)
        \o NamedFiles(template.skills, SkillPath)
        \o NamedFiles(template.agents, AgentPath)]

\* A slip: the dry run does not stop before the files are written.
initStopIgnoresDryRun(flags, found, world, plan, answer) ==
  IF flags.list THEN "listed"
  ELSE IF ~flags.templateId \/ ~found THEN "exit"
  ELSE IF plan.threw THEN "threw"
  ELSE IF /\ world.claudeDir
          /\ ~flags.force
          /\ \E i \in 1..Len(plan.files) : fileExists(world, plan.files[i].path)
          /\ ~answer
       THEN "aborted"
  ELSE "write"

\* Where init leaves before it writes (lines 33-169), "write" where it goes
\* on: answer is what the user says to the prompt.
initStop(flags, found, world, plan, answer) ==
  IF flags.list THEN "listed"
  ELSE IF ~flags.templateId \/ ~found THEN "exit"
  ELSE IF plan.threw THEN "threw"
  ELSE IF flags.dryRun THEN "dry-run"
  ELSE IF /\ world.claudeDir
          /\ ~flags.force
          /\ \E i \in 1..Len(plan.files) : fileExists(world, plan.files[i].path)
          /\ ~answer
       THEN "aborted"
  ELSE "write"

(***************************************************************************)
(* The feedback store (src/src/feedback.mjs)                               *)
(***************************************************************************)

\* String(n) for 0 <= n.
RECURSIVE IntText(_)
IntText(n) ==
  IF n < 10 THEN IndexKeys[n + 1] ELSE IntText(n \div 10) \o IndexKeys[(n % 10) + 1]

Member(k, v) == [k |-> k, v |-> v]

\* An item of a record as JSON.stringify sees it: event is left out when
\* it is undefined.
ItemJson(item) ==
  JObj(<< Member(<<"i","d">>, JStr(item.id)),
          Member(<<"c","a","t","e","g","o","r","y">>, JStr(item.category)),
          Member(<<"n","a","m","e">>, JStr(item.name)) >>
       \o (IF item.event # <<>> THEN << Member(<<"e","v","e","n","t">>, JStr(item.event)) >> ELSE <<>>)
       \o << Member(<<"s","t","a","t","u","s">>, JStr(item.status)),
             Member(<<"s","o","u","r","c","e">>, JStr(item.source)),
             Member(<<"h","e","u","r","i","s","t","i","c","K","e","y">>, JStr(item.heuristicKey)) >>)

\* The record of createFeedbackRecord as JSON.stringify sees it (lines
\* 76-106).
RecordJson(record) ==
  JObj(<< Member(<<"s","e","s","s","i","o","n","I","d">>, JStr(record.sessionId)),
          Member(<<"t","i","m","e","s","t","a","m","p">>, JStr(record.timestamp)),
          Member(<<"s","o","u","r","c","e">>, JStr(record.source)),
          Member(<<"p","r","o","j","e","c","t">>,
                 JObj(<< Member(<<"t","y","p","e">>, JStr(record.projectType)),
                         Member(<<"f","r","a","m","e","w","o","r","k","s">>,
                                JArr([i \in 1..Len(record.frameworks) |->
                                        JStr(record.frameworks[i])])),
                         Member(<<"s","i","z","e">>, JStr(record.projectSize)) >>)),
          Member(<<"t","e","m","p","l","a","t","e">>,
                 JObj(<< Member(<<"i","d">>, JStr(record.templateId)),
                         Member(<<"c","o","n","f","i","d","e","n","c","e">>,
                                JNum(IntText(record.templateConfidence))) >>)),
          Member(<<"i","t","e","m","s">>, JArr([i \in 1..Len(record.items) |-> ItemJson(record.items[i])])),
          Member(<<"s","u","m","m","a","r","y">>,
                 JObj(<< Member(<<"t","o","t","a","l">>, JNum(IntText(record.summary.total))),
                         Member(<<"a","p","p","r","o","v","e","d">>, JNum(IntText(record.summary.approved))),
                         Member(<<"s","k","i","p","p","e","d">>, JNum(IntText(record.summary.skipped))),
                         Member(<<"m","o","d","i","f","i","e","d">>, JNum(IntText(record.summary.modified))),
                         Member(<<"a","p","p","r","o","v","a","l","R","a","t","e">>,
                                JNum(IntText(record.summary.approvalRate))) >>)) >>)

P_feedbackDir == <<".","c","l","a","u","d","e","/","a","g","e","n","t","i","c","-","r","i","g","/","f","e","e","d","b","a","c","k","/">>

S_json == <<".","j","s","o","n">>

\* One file for every session.
FeedbackPathShared(sessionId) == P_feedbackDir \o <<"l","a","t","e","s","t">> \o S_json

FeedbackPath(sessionId) == P_feedbackDir \o sessionId \o S_json

\* saveFeedback (lines 112-118) for a record given as a JSON value: the file
\* of the session id is written, one that is there is written over.
saveFeedback(world, record) ==
  writeFileWithDir(world, FeedbackPath(Val(JsonProp(record, <<"s","e","s","s","i","o","n","I","d">>))),
                   JsonStringify(record, <<>>))

(***************************************************************************)
(* init: the steps                                                         *)
(***************************************************************************)

S_all == <<"a","l","l">>

TemplateItem(id, category, name, event) ==
  [id |-> id, category |-> category, name |-> name, event |-> event,
   status |-> S_approved, source |-> <<"t","e","m","p","l","a","t","e">>, heuristicKey |-> <<>>]

\* hook.matcher || "all" for a matcher that is a string or missing.
MatcherOrAll(hook) ==
  IF JsonTruthy(JsonProp(hook, S_matcher)) THEN Val(JsonProp(hook, S_matcher)) ELSE S_all

HookItems(event, hookList) ==
  [i \in 1..Len(hookList) |->
     TemplateItem(<<"H", "-">> \o event \o <<"-">> \o MatcherOrAll(hookList[i]),
                  <<"h","o","o","k">>, MatcherOrAll(hookList[i]), event)]

RECURSIVE EventItems(_, _)
EventItems(entries, i) ==
  IF i > Len(entries) THEN <<>>
  ELSE (IF Tag(entries[i].v) = "arr" THEN HookItems(entries[i].k, Val(entries[i].v)) ELSE <<>>)
         \o EventItems(entries, i + 1)

NamedItems(entries, prefix, category) ==
  [i \in 1..Len(entries) |->
     TemplateItem(prefix \o entries[i].k, category, entries[i].k, <<>>)]

\* buildFeedbackItems (lines 224-303): threw where a hook is null.
buildFeedbackItems(template) ==
  [threw |-> \E i \in 1..Len(JsonEntries(template.hooks)) :
               LET v == JsonEntries(template.hooks)[i].v
               IN Tag(v) = "arr" /\ \E j \in 1..Len(Val(v)) : Val(v)[j] = JLit(JsonNull),
   items |->
     (IF template.claude_md # <<>>
      THEN << TemplateItem(<<"C","1">>, N_claude_md, N_claude_md, <<>>) >> ELSE <<>>)
     \o EventItems(JsonEntries(template.hooks), 1)
     \o NamedItems(template.skills, <<"S","-">>, <<"s","k","i","l","l">>)
     \o NamedItems(template.agents, <<"A","-">>, <<"a","g","e","n","t">>)
     \o NamedItems(JsonEntries(template.mcp_servers), <<"M","-">>, <<"m","c","p">>)
     \o [i \in 1..Len(template.external_skills) |->
           TemplateItem(<<"E","-">> \o template.external_skills[i].name,
                        <<"e","x","t","e","r","n","a","l","_","s","k","i","l","l">>, template.external_skills[i].name, <<>>)]]

S_id == <<"i","d">>

\* template.meta.id for an id that is a string or a number.
MetaId(meta) == IF ObjHas(meta, S_id) THEN Val(ObjGet(meta, S_id)) ELSE <<>>

\* The record of lines 203-213.
initRecord(template, sessionId, now) ==
  createFeedbackRecord(
    [sessionId |-> sessionId, templateId |-> MetaId(template.meta),
     templateConfidence |-> 1, projectType |-> MetaId(template.meta),
     frameworks |-> <<>>, projectSize |-> S_unknown, source |-> <<"c","l","i">>,
     items |-> buildFeedbackItems(template).items],
    now)

M_full == << Member(S_id, StrV(<<"t","1">>)), Member(S_name, StrV(<<"T"," ","o","n","e">>)) >>

H_pre == <<"{","\"","P","r","e","\"",":"," ","[","{","\"","m","a","t","c","h","e","r","\"",":"," ","\"","a","\"",","," ","\"","c","o","m","m","a","n","d","\"",":"," ","\"","x","\"","}","]","}">>

\* A template with every kind of content.
T_full ==
  [meta |-> M_full,
   claude_md |-> <<"u","s","e"," ","t","a","b","s">>,
   hooks |-> JsonParse(H_pre).val,
   skills |-> << Member(<<"s","1">>, <<"s","k","i","l","l"," ","t","e","x","t">>) >>,
   agents |-> << Member(<<"a","1">>, <<"a","g","e","n","t"," ","t","e","x","t">>) >>,
   mcp_servers |-> JsonParse(<<"{","\"","m","\"",":"," ","{","\"","c","o","m","m","a","n","d","\"",":"," ","\"","c","\"","}","}">>).val,
   external_skills |-> << [name |-> <<"e">>, repository |-> <<"o","/","r">>,
                           skill |-> <<"s">>, description |-> <<"d">>] >>]

\* A template without content.
T_bare ==
  [meta |-> M_full, claude_md |-> <<>>, hooks |-> JObj(EmptyObj), skills |-> EmptyObj,
   agents |-> EmptyObj, mcp_servers |-> JObj(EmptyObj), external_skills |-> <<>>]

\* A template without a name, a null among its hooks and an event that is
\* no list.
T_odd ==
  [meta |-> << Member(S_id, StrV(<<"t","2">>)) >>,
   claude_md |-> <<" ","b","e"," ","b","r","i","e","f"," ">>,
   hooks |-> JsonParse(<<"{","\"","P","r","e","\"",":"," ","[","{","\"","m","a","t","c","h","e","r","\"",":"," ","\"","a","\"",","," ","\"","c","o","m","m","a","n","d","\"",":"," ","\"","x","\"","}",","," ","n","u","l","l","]",","," ","\"","P","o","s","t","\"",":"," ","1","}">>).val,
   skills |-> EmptyObj, agents |-> EmptyObj, mcp_servers |-> JObj(EmptyObj),
   external_skills |-> <<>>]

InitTemplates == {T_full, T_bare, T_odd}

W_empty == [files |-> EmptyObj, claudeDir |-> FALSE]

W_dirOnly == [files |-> EmptyObj, claudeDir |-> TRUE]

\* The directory after a run with a template of the hook of H_pre.
W_prior ==
  [files |-> << Member(P_claudeMd, <<"#"," ","T",NL,NL,"o","l","d"," ","t","e","x","t",NL,NL>> \o ATTRIBUTION),
                Member(P_settings, JsonStringify(JsonParse(H_pre).val, <<>>)),
                Member(SkillPath(<<"s","1">>), <<"m","y"," ","s","k","i","l","l">>) >>,
   claudeDir |-> TRUE]

\* Files that do not parse, or parse to no object.
W_broken ==
  [files |-> << Member(P_claudeMd, <<"n","o","t","e","s">>),
                Member(P_settings, <<"{","\"","P","r","e","\"",":"," ">>),
                Member(P_mcp, <<"5">>) >>,
   claudeDir |-> TRUE]

InitWorlds == {W_empty, W_dirOnly, W_prior, W_broken}

MaxFailAt == 2

InitFlags == [list : BOOLEAN, templateId : BOOLEAN, dryRun : BOOLEAN, force : BOOLEAN]

\* found: the index names the template; answer: what the user says to the
\* prompt; failAt: the write that fails, 0 for none; saveFails: the save of
\* the record fails.
InitInit ==
  /\ pc = "call"
  /\ op = "init"
  /\ input \in [flags : InitFlags, found : BOOLEAN, template : InitTemplates,
                world : InitWorlds, answer : BOOLEAN, sessionId : {<<"s","1">>},
                failAt : 0..MaxFailAt, saveFails : BOOLEAN]
  /\ arg = input.world
  /\ res = <<>>

\* init up to its first write (lines 28-169).
InitPlan ==
  /\ pc = "call"
  /\ op = "init"
  /\ LET plan == PlanFiles(arg, input.template)
         stop == initStop(input.flags, input.found, arg, plan, input.answer)
     IN /\ res' = [out |-> stop,
                   plan |-> IF stop \in {"dry-run", "aborted", "write"} THEN plan.files
                            ELSE <<>>,
                   written |-> 0]
        /\ pc' = IF stop = "write" THEN "writing" ELSE "done"
  /\ UNCHANGED <<op, input, arg>>

\* One turn of the loop of lines 172-176: the write, or its failure.
InitWrite ==
  /\ pc = "writing"
  /\ op = "init"
  /\ res.written < Len(res.plan)
  /\ IF input.failAt = res.written + 1
     THEN /\ res' = [res EXCEPT !.out = "threw"]
          /\ pc' = "done"
          /\ UNCHANGED arg
     ELSE /\ arg' = writeFileWithDir(arg, res.plan[res.written + 1].path,
                                     res.plan[res.written + 1].content)
          /\ res' = [res EXCEPT !.written = @ + 1]
          /\ pc' = "writing"
  /\ UNCHANGED <<op, input>>

\* A slip: the record saved before the loop of the writes has run out.
InitFeedbackEarly ==
  /\ pc = "writing"
  /\ op = "init"
  /\ arg' = IF buildFeedbackItems(input.template).threw \/ input.saveFails THEN arg
            ELSE saveFeedback(arg, RecordJson(initRecord(input.template, input.sessionId,
                                                         T_now)))
  /\ res' = [res EXCEPT !.out = "done"]
  /\ pc' = "done"
  /\ UNCHANGED <<op, input>>

\* The record of the run (lines 201-217): saved, or given up without a word.
InitFeedback ==
  /\ pc = "writing"
  /\ op = "init"
  /\ res.written = Len(res.plan)
  /\ arg' = IF buildFeedbackItems(input.template).threw \/ input.saveFails THEN arg
            ELSE saveFeedback(arg, RecordJson(initRecord(input.template, input.sessionId,
                                                         T_now)))
  /\ res' = [res EXCEPT !.out = "done"]
  /\ pc' = "done"
  /\ UNCHANGED <<op, input>>

NextInit == InitPlan \/ InitWrite \/ InitFeedback

SpecInit == InitInit /\ [][NextInit]_vars

\* C18: init with --dry-run writes no file under the target directory and
\* saves no feedback record, whatever the template holds and whatever files
\* are there: the directory stays as it was.
C18_DryRunWritesNothing ==
  (op = "init" /\ input.flags.dryRun) =>
    /\ arg = input.world
    /\ pc \in {"call", "done"}
    /\ ~ObjHas(arg.files, FeedbackPath(input.sessionId))

\* A dry run of the full template over the files of an earlier run: five
\* files planned, none written.
C18_Witness ==
  /\ op = "init"
  /\ pc = "done"
  /\ input.flags.dryRun
  /\ ~input.flags.list
  /\ input.flags.templateId
  /\ input.found
  /\ input.template = T_full
  /\ input.world = W_prior
  /\ res.out = "dry-run"
  /\ Len(res.plan) = 5
  /\ arg = W_prior

(***************************************************************************)
(* Loading the store (src/src/feedback.mjs)                                *)
(***************************************************************************)

\* The characters of a timestamp in the order of the collation, the lowest
\* first.
StampChars == <<"-", ":", ".", "0", "1", "2", "3", "4", "5", "6", "7", "8", "9", "T", "Z">>

StampRank(c) == CHOOSE i \in 1..Len(StampChars) : StampChars[i] = c

\* a.localeCompare(b) < 0 for texts of the characters of timestamps: the
\* first place where they differ decides, a text that ends there is the
\* lower one.
LocaleBefore(a, b) ==
  LET differ == {i \in 1..Len(a) : i > Len(b) \/ a[i] # b[i]}
  IN IF differ = {} THEN Len(a) < Len(b)
     ELSE LET i == CHOOSE j \in differ : \A k \in differ : j <= k
          IN i <= Len(b) /\ StampRank(a[i]) < StampRank(b[i])

S_timestamp == <<"t","i","m","e","s","t","a","m","p">>

\* a.timestamp || "" for a parsed value that is not null and whose
\* timestamp, where it has one, is a string.
StampOf(v) ==
  IF JsonTruthy(JsonProp(v, S_timestamp)) THEN Val(JsonProp(v, S_timestamp)) ELSE <<>>

\* record put into the sorted records behind every record that is not
\* later than it: the sort is stable.
InsertByStamp(records, record) ==
  LET later == {i \in 1..Len(records) : LocaleBefore(StampOf(record), StampOf(records[i]))}
      n == IF later = {} THEN Len(records)
           ELSE (CHOOSE i \in later : \A j \in later : i <= j) - 1
  IN SubSeq(records, 1, n) \o <<record>> \o SubSeq(records, n + 1, Len(records))

RECURSIVE SortByStamp(_, _, _)
SortByStamp(records, i, acc) ==
  IF i > Len(records) THEN acc
  ELSE Apply(LAMBDA next : SortByStamp(records, i + 1, next), InsertByStamp(acc, records[i]))

\* The loop's turn without the try of lines 150-155: what cannot be parsed
\* is pushed as it is.
LoadFileNoTry(records, file) ==
  IF ~EndsWith(file.name, S_json) THEN records
  ELSE Append(records, JsonParse(file.text).val)

\* One turn of the loop of lines 148-156 over a file [name, readable, text].
LoadFile(records, file) ==
  IF ~EndsWith(file.name, S_json) THEN records
  ELSE IF ~file.readable THEN records
  ELSE Apply(LAMBDA p : IF p.ok THEN Append(records, p.val) ELSE records,
             JsonParse(file.text))

RECURSIVE LoadFiles(_, _, _)
LoadFiles(files, i, records) ==
  IF i > Len(files) THEN records
  ELSE Apply(LAMBDA next : LoadFiles(files, i + 1, next), LoadFile(records, files[i]))

\* The sort of line 158 and the return: the comparator reads a property of
\* each element once there are two of them, and throws on null.
SortedRecords(records) ==
  IF Len(records) >= 2 /\ \E i \in 1..Len(records) : records[i] = JLit(JsonNull)
  THEN [threw |-> TRUE, records |-> <<>>]
  ELSE [threw |-> FALSE, records |-> SortByStamp(records, 1, <<>>)]

\* loadAllFeedback (lines 138-160) over a directory [state, files]: state
\* is "ok", "missing" or "unreadable", files are in the order of readdir.
loadAllFeedback(dir) ==
  IF dir.state # "ok" THEN [threw |-> FALSE, records |-> <<>>]
  ELSE Apply(LAMBDA records : SortedRecords(records), LoadFiles(dir.files, 1, <<>>))

\* loadFeedback (lines 123-132): null where the file cannot be read or
\* parsed.
loadFeedback(dir, sessionId) ==
  LET named == {i \in 1..Len(dir.files) : dir.files[i].name = sessionId \o S_json}
  IN IF dir.state # "ok" \/ named = {} THEN JLit(JsonNull)
     ELSE Apply(LAMBDA file :
                  IF ~file.readable THEN JLit(JsonNull)
                  ELSE Apply(LAMBDA p : IF p.ok THEN p.val ELSE JLit(JsonNull),
                             JsonParse(file.text)),
                dir.files[CHOOSE i \in named : TRUE])

\* The feedback directory of a directory tree: its files by their names.
FeedbackFiles(world) ==
  LET under == SelectSeq(world.files, LAMBDA e : StartsWith(e.k, P_feedbackDir))
  IN [i \in 1..Len(under) |->
        [name |-> SubSeq(under[i].k, Len(P_feedbackDir) + 1, Len(under[i].k)),
         readable |-> TRUE, text |-> under[i].v]]

FeedbackDirOf(world, made) ==
  [state |-> IF made \/ FeedbackFiles(world) # <<>> THEN "ok" ELSE "missing",
   files |-> FeedbackFiles(world)]

T_later == <<"2","0","2","6","-","0","1","-","0","2","T","0","0",":","0","0",":","0","0",".","0","0","0","Z">>

StoredRecord(sessionId, now, items) ==
  RecordJson(createFeedbackRecord(
    [sessionId |-> sessionId, projectType |-> <<"n","o","d","e">>, templateId |-> <<"t","1">>,
     items |-> items], now))

\* Three records: the second is the older one, the third of the time of
\* the first.
V_a == StoredRecord(<<"s","1">>, T_later, << I_hook(S_approved) >>)

V_b == StoredRecord(<<"s","2">>, T_now, <<>>)

V_c == StoredRecord(<<"s","3">>, T_later, << I_mcp(S_skipped) >>)

JsonFile(name, value) ==
  [name |-> name \o S_json, readable |-> TRUE, text |-> JsonStringify(value, <<>>),
   kind |-> "record", value |-> value]

\* The file of a write that stopped after the first n characters.
CutFile(name, value, n) ==
  [name |-> name \o S_json, readable |-> TRUE,
   text |-> SubSeq(JsonStringify(value, <<>>), 1, n), kind |-> "truncated", value |-> value]

\* The files a feedback directory may hold: records, files cut short (one
\* of them one character before its end), an empty file, text that is no
\* JSON, a file that cannot be read, a record under a name without .json,
\* and an object that has no timestamp.
StoreFiles ==
  { JsonFile(<<"s","1">>, V_a), JsonFile(<<"s","2">>, V_b), JsonFile(<<"s","3">>, V_c),
    CutFile(<<"s","4">>, V_a, Len(JsonStringify(V_a, <<>>)) - 1),
    CutFile(<<"s","5">>, V_b, Len(JsonStringify(V_b, <<>>)) \div 2),
    CutFile(<<"s","6">>, V_b, 0),
    [name |-> <<"s","7",".","j","s","o","n">>, readable |-> TRUE, text |-> <<"n","o","t"," ","j","s","o","n">>,
     kind |-> "malformed", value |-> V_a],
    [name |-> <<"s","8",".","j","s","o","n">>, readable |-> FALSE, text |-> JsonStringify(V_a, <<>>),
     kind |-> "unreadable", value |-> V_a],
    [name |-> <<"n","o","t","e","s",".","t","x","t">>, readable |-> TRUE, text |-> JsonStringify(V_b, <<>>),
     kind |-> "other", value |-> V_b],
    [name |-> <<"s","9",".","j","s","o","n">>, readable |-> TRUE, text |-> <<"{","}">>,
     kind |-> "record", value |-> JObj(EmptyObj)] }

MaxFiles == 3

\* The listings of up to MaxFiles files, no file twice.
Listings ==
  {s \in SeqsUpTo(StoreFiles, MaxFiles) : \A i, j \in 1..Len(s) : i # j => s[i] # s[j]}

LoadOps == {"loadAllFeedback", "loadFeedback"}

\* A directory that is missing has no files; the files of one that cannot
\* be read are not seen.
InitLoad ==
  /\ pc = "call"
  /\ op \in LoadOps
  /\ input \in [state : {"ok"}, files : Listings]
               \cup [state : {"missing"}, files : {<<>>}]
               \cup [state : {"unreadable"}, files : {s \in Listings : Len(s) <= 1}]
  /\ arg \in IF op = "loadFeedback" THEN {<<"s","1">>, <<"s","4">>, <<"s","8">>} ELSE {<<>>}
  /\ res = <<>>

LoadAllFeedback ==
  /\ pc = "call"
  /\ op = "loadAllFeedback"
  /\ res' = loadAllFeedback(input)
  /\ pc' = "done"
  /\ UNCHANGED <<op, input, arg>>

LoadFeedback ==
  /\ pc = "call"
  /\ op = "loadFeedback"
  /\ res' = loadFeedback(input, arg)
  /\ pc' = "done"
  /\ UNCHANGED <<op, input, arg>>

NextLoad == LoadAllFeedback \/ LoadFeedback

SpecLoad == InitLoad /\ [][NextLoad]_vars

LoadDone == pc = "done" /\ op = "loadAllFeedback"

\* The files of the listing that hold a well-formed record under a .json
\* name and can be read.
WellFormed(files) ==
  SelectSeq(files, LAMBDA f : f.kind = "record")

OldestFirst(records) ==
  \A i, j \in 1..Len(records) :
    i < j => ~LocaleBefore(StampOf(records[j]), StampOf(records[i]))

\* C14: loadAllFeedback takes the .json files of the feedback directory one
\* by one: a file that cannot be read or whose JSON is malformed or cut
\* short is left out, and every well-formed record is returned, oldest
\* first, so that one valid file next to one corrupt file yields the one
\* valid record; a directory that is missing or cannot be read yields the
\* empty list and no error.
C14_CorruptFilesLeftOut ==
  LoadDone =>
    /\ ~res.threw
    /\ input.state # "ok" => res.records = <<>>
    /\ input.state = "ok" =>
         /\ Len(res.records) = Len(WellFormed(input.files))
         /\ \A i \in 1..Len(input.files) :
              input.files[i].kind = "record" =>
                \E j \in 1..Len(res.records) : res.records[j] = input.files[i].value
         /\ \A j \in 1..Len(res.records) :
              \E i \in 1..Len(input.files) :
                input.files[i].kind = "record" /\ res.records[j] = input.files[i].value
         /\ OldestFirst(res.records)

\* A record, then its own text one character short, then a later record:
\* the two records come back, the older one first.
C14_Witness ==
  /\ LoadDone
  /\ input.state = "ok"
  /\ Len(input.files) = 3
  /\ input.files[1] = JsonFile(<<"s","1">>, V_a)
  /\ input.files[2].kind = "truncated"
  /\ input.files[2].text = SubSeq(input.files[1].text, 1, Len(input.files[1].text) - 1)
  /\ input.files[3] = JsonFile(<<"s","2">>, V_b)
  /\ res.records = << V_b, V_a >>

(***************************************************************************)
(* Saving and loading in turn                                              *)
(***************************************************************************)

\* A second record of the session of V_a, made later with another item.
V_a2 == StoredRecord(<<"s","1">>, <<"2","0","2","6","-","0","1","-","0","3","T","0","0",":","0","0",":","0","0",".","0","0","0","Z">>, << I_mcp(S_skipped) >>)

SaveRecords == {V_a, V_a2, V_b}

SessionIds == {<<"s","1">>, <<"s","2">>, <<"s","3">>}

MaxSaves == 3

S_sessionId == <<"s","e","s","s","i","o","n","I","d">>

SessionOf(record) == Val(JsonProp(record, S_sessionId))

\* input.saved is the records handed to saveFeedback so far, arg the
\* directory tree, op and res the last call and what it returned.
InitStore ==
  /\ pc = "ready"
  /\ op = "none"
  /\ input = [saved |-> <<>>]
  /\ arg = W_empty
  /\ res = <<>>

StoreSave ==
  /\ pc = "ready"
  /\ Len(input.saved) < MaxSaves
  /\ \E record \in SaveRecords :
       /\ arg' = saveFeedback(arg, record)
       /\ input' = [saved |-> Append(input.saved, record)]
       /\ res' = [of |-> SessionOf(record), value |-> FeedbackPath(SessionOf(record))]
  /\ op' = "saveFeedback"
  /\ UNCHANGED pc

StoreLoad ==
  /\ pc = "ready"
  /\ \E sessionId \in SessionIds :
       res' = [of |-> sessionId,
               value |-> Apply(LAMBDA dir : loadFeedback(dir, sessionId),
                               FeedbackDirOf(arg, FALSE))]
  /\ op' = "loadFeedback"
  /\ UNCHANGED <<pc, input, arg>>

StoreLoadAll ==
  /\ pc = "ready"
  /\ res' = Apply(LAMBDA dir : loadAllFeedback(dir), FeedbackDirOf(arg, FALSE))
  /\ op' = "loadAllFeedback"
  /\ UNCHANGED <<pc, input, arg>>

NextStore == StoreSave \/ StoreLoad \/ StoreLoadAll

SpecStore == InitStore /\ [][NextStore]_vars

SavesOf(sessionId) == SelectSeq(input.saved, LAMBDA r : SessionOf(r) = sessionId)

SavedIds == {s \in SessionIds : SavesOf(s) # <<>>}

FirstSaved(sessionId) == SavesOf(sessionId)[1]

LastSaved(sessionId) == SavesOf(sessionId)[Len(SavesOf(sessionId))]

\* C15: after any sequence of saveFeedback calls the record first written
\* under a session id is the one stored, no later call changes it; a save
\* leaves the files of the other session ids as they were; loadFeedback
\* returns the record stored under the id, null where there is none; and
\* loadAllFeedback returns exactly the stored records.
C15_WrittenOnceNeverChanged ==
  op # "none" =>
    /\ \A s \in SavedIds :
         /\ ReadFile(arg, FeedbackPath(s)) = FileText(JsonStringify(LastSaved(s), <<>>))
         /\ LastSaved(s) = FirstSaved(s)
    /\ \A s \in SessionIds \ SavedIds : ~fileExists(arg, FeedbackPath(s))
    /\ op = "loadFeedback" =>
         res.value = IF res.of \in SavedIds THEN LastSaved(res.of) ELSE JLit(JsonNull)
    /\ op = "loadAllFeedback" =>
         /\ ~res.threw
         /\ {res.records[i] : i \in 1..Len(res.records)} = {LastSaved(s) : s \in SavedIds}
         /\ Len(res.records) = Cardinality(SavedIds)

\* The session s1 saved twice: the file holds the second record, and that
\* is what loadFeedback returns.
C15_Overwritten ==
  /\ op = "loadFeedback"
  /\ res.of = <<"s","1">>
  /\ input.saved = << V_a, V_b, V_a2 >>
  /\ ReadFile(arg, FeedbackPath(<<"s","1">>)) = FileText(JsonStringify(V_a2, <<>>))
  /\ res.value = V_a2
  /\ V_a2 # V_a

(***************************************************************************)
(* Two savers and a loader at once                                         *)
(***************************************************************************)

Savers == {"s1", "s2"}

MaxChunks == 3

\* The lengths a file may have after a write that did not take the whole
\* text, and the whole.
Cuts(text) == {1, Len(text) \div 2, Len(text) - 1, Len(text)}

SaverText(p) == JsonStringify(input[p], <<>>)

SaverPath(p) == FeedbackPath(SessionOf(input[p]))

\* input holds the record of each saver; arg the directory tree, whether
\* the feedback directory is there, and the writes each saver has made; pc
\* the place of each process; res the loader's listing, its place in it,
\* the records pushed, what it returned, and the savers that had finished
\* when it listed the directory.
InitRace ==
  /\ op = "concurrent"
  /\ input = [s1 |-> V_a, s2 |-> V_b]
  /\ arg = [world |-> W_empty, made |-> FALSE, writes |-> [p \in Savers |-> 0]]
  /\ pc = [s1 |-> "mkdir", s2 |-> "mkdir", loader |-> "readdir"]
  /\ res = [names |-> <<>>, i |-> 1, records |-> <<>>, out |-> <<>>, before |-> {}]

\* mkdir(feedbackDir, {recursive: true}) of line 114.
SaverMkdir(p) ==
  /\ op = "concurrent"
  /\ pc[p] = "mkdir"
  /\ arg' = [arg EXCEPT !.made = TRUE, !.world.claudeDir = TRUE]
  /\ pc' = [pc EXCEPT ![p] = "open"]
  /\ UNCHANGED <<op, input, res>>

\* writeFile of line 116 opens the file: it is there and empty.
SaverOpen(p) ==
  /\ op = "concurrent"
  /\ pc[p] = "open"
  /\ arg' = [arg EXCEPT !.world = writeFileWithDir(arg.world, SaverPath(p), <<>>)]
  /\ pc' = [pc EXCEPT ![p] = "write"]
  /\ UNCHANGED <<op, input, res>>

\* One write of writeFile: it takes the text up to some length, the whole
\* text at the latest with the last write.
SaverWrite(p) ==
  /\ op = "concurrent"
  /\ pc[p] = "write"
  /\ \E n \in Cuts(SaverText(p)) :
       /\ n > Len(ObjGet(arg.world.files, SaverPath(p)))
       /\ arg.writes[p] + 1 = MaxChunks => n = Len(SaverText(p))
       /\ arg' = [arg EXCEPT
                    !.world = writeFileWithDir(arg.world, SaverPath(p),
                                               SubSeq(SaverText(p), 1, n)),
                    !.writes[p] = @ + 1]
       /\ pc' = [pc EXCEPT ![p] = IF n = Len(SaverText(p)) THEN "done" ELSE "write"]
  /\ UNCHANGED <<op, input, res>>

\* readdir of lines 141-145.
LoaderReaddir ==
  /\ op = "concurrent"
  /\ pc.loader = "readdir"
  /\ LET dir == FeedbackDirOf(arg.world, arg.made)
     IN IF dir.state # "ok"
        THEN /\ res' = [res EXCEPT !.out = [threw |-> FALSE, records |-> <<>>],
                                   !.before = {p \in Savers : pc[p] = "done"}]
             /\ pc' = [pc EXCEPT !.loader = "done"]
        ELSE /\ res' = [res EXCEPT !.names = [i \in 1..Len(dir.files) |-> dir.files[i].name],
                                   !.before = {p \in Savers : pc[p] = "done"}]
             /\ pc' = [pc EXCEPT !.loader = "read"]
  /\ UNCHANGED <<op, input, arg>>

\* One turn of the loop of lines 148-156: the file is read as it is now.
LoaderRead ==
  /\ op = "concurrent"
  /\ pc.loader = "read"
  /\ res.i <= Len(res.names)
  /\ LET now == FeedbackDirOf(arg.world, arg.made).files
         file == now[CHOOSE k \in 1..Len(now) : now[k].name = res.names[res.i]]
     IN res' = [res EXCEPT !.records = LoadFile(res.records, file), !.i = @ + 1]
  /\ UNCHANGED <<op, input, arg, pc>>

\* The sort and the return of lines 158-159.
LoaderReturn ==
  /\ op = "concurrent"
  /\ pc.loader = "read"
  /\ res.i > Len(res.names)
  /\ res' = [res EXCEPT !.out = SortedRecords(res.records)]
  /\ pc' = [pc EXCEPT !.loader = "done"]
  /\ UNCHANGED <<op, input, arg>>

NextRace ==
  \/ \E p \in Savers : SaverMkdir(p)
  \/ \E p \in Savers : SaverOpen(p)
  \/ \E p \in Savers : SaverWrite(p)
  \/ LoaderReaddir
  \/ LoaderRead
  \/ LoaderReturn

SpecRace == InitRace /\ [][NextRace]_vars

Finished == {p \in Savers : pc[p] = "done"}

Returned == {res.out.records[i] : i \in 1..Len(res.out.records)}

\* C16: with two savers of distinct session ids and a loader running at
\* once, a saver that has finished finds its record in its file whatever
\* the other does, so that both files hold their records once both have
\* finished; and the load raises no error and returns only whole records
\* of the savers, each once, among them the record of every saver that had
\* finished when the load began and none of a saver whose text is not
\* written whole. No text that a write can leave behind for a moment
\* parses: no proper prefix of a record's text is JSON.
C16_SaversDoNotInterfere ==
  op = "concurrent" =>
    /\ \A p \in Finished : ReadFile(arg.world, SaverPath(p)) = FileText(SaverText(p))
    /\ Len(arg.world.files) <= Cardinality(Savers)
    /\ pc.loader = "done" =>
         /\ ~res.out.threw
         /\ Returned \subseteq {input[p] : p \in Savers}
         /\ Len(res.out.records) = Cardinality(Returned)
         /\ \A p \in res.before : input[p] \in Returned
         /\ \A p \in Savers : input[p] \in Returned => pc[p] = "done"
    /\ (\A p \in Savers : pc[p] = "mkdir") =>
         \A p \in Savers : \A n \in 0..(Len(SaverText(p)) - 1) :
           ~JsonParse(SubSeq(SaverText(p), 1, n)).ok

\* The loader listed both files while the second was one character short
\* and the first whole: it returned the first record alone, and both files
\* are whole now.
C16_Witness ==
  /\ op = "concurrent"
  /\ pc = [s1 |-> "done", s2 |-> "done", loader |-> "done"]
  /\ Len(res.names) = 2
  /\ res.before = {"s1"}
  /\ res.out.records = << V_a >>
  /\ arg.writes = [s1 |-> 1, s2 |-> MaxChunks]
  /\ ReadFile(arg.world, SaverPath("s2")) = FileText(SaverText("s2"))

(***************************************************************************)
(* The suggestions of generateInsights                                     *)
(***************************************************************************)

S_Python == <<"P","y","t","h","o","n">>

S_Node == <<"N","o","d","e">>

S_nodeApi == <<"n","o","d","e","-","a","p","i">>

\* Sessions of a served type with a template, with items and without; of
\* a type whose name no template id holds, without a template and with the
\* template py; of no known type under the template id none.
SuggestRecords ==
  { [projectType |-> S_Node, templateId |-> S_nodeApi, items |-> << I_mcp(S_approved) >>],
    [projectType |-> S_Node, templateId |-> S_nodeApi, items |-> << I_mcp(S_skipped) >>],
    [projectType |-> S_Node, templateId |-> S_nodeApi, items |-> <<>>],
    [projectType |-> S_Python, templateId |-> <<>>, items |-> << I_hook(S_skipped) >>],
    [projectType |-> S_Python, templateId |-> <<"p","y">>, items |-> << I_hook(S_approved) >>],
    [projectType |-> S_unknown, templateId |-> S_none, items |-> << I_hook(S_skipped) >>] }

MaxSuggestRecords == 3

InitSuggest ==
  /\ pc = "call"
  /\ op = "generateInsights"
  /\ input \in SeqsUpTo(SuggestRecords, MaxSuggestRecords)
  /\ arg = input
  /\ res = <<>>

NextSuggest == GenerateInsights

SpecSuggest == InitSuggest /\ [][NextSuggest]_vars

SuggestDone == pc = "done" /\ op = "generateInsights"

\* The suggestions of a kind about a name.
SuggestionsOf(kind, name) ==
  Cardinality({i \in 1..Len(res.suggestions) :
                 res.suggestions[i][1] = kind /\ res.suggestions[i][2] = name})

\* The items of the sessions of the template id tid in the first r
\* records, all of them or the approved ones.
RECURSIVE TemplateItems(_, _, _, _)
TemplateItems(records, tid, approvedOnly, r) ==
  IF r = 0 THEN 0
  ELSE TemplateItems(records, tid, approvedOnly, r - 1)
         + (IF TemplateOf(records[r]) # tid THEN 0
            ELSE Cardinality({i \in 1..Len(records[r].items) :
                                approvedOnly => records[r].items[i].status = S_approved}))

TemplateSessions(records, tid) ==
  Cardinality({r \in 1..Len(records) : TemplateOf(records[r]) = tid})

\* The template id is one to review: not none, 3 sessions or more, a rate
\* under 70, the rate of a template without items being 0.
ToReview(records, tid) ==
  LET items == TemplateItems(records, tid, FALSE, Len(records))
      approved == TemplateItems(records, tid, TRUE, Len(records))
  IN /\ tid # S_none
     /\ TemplateSessions(records, tid) >= 3
     /\ (IF items = 0 THEN 0 ELSE RoundedRate(approved, items)) < 70

\* The project type lacks a template: not unknown, seen 3 times or more,
\* its lower-cased name in no template id but none.
ToCreate(records, pt) ==
  /\ pt # S_unknown
  /\ Cardinality({r \in 1..Len(records) : TypeOf(records[r]) = pt}) >= 3
  /\ ~\E r \in 1..Len(records) :
        /\ TemplateOf(records[r]) # S_none
        /\ IncludesText(TemplateOf(records[r]), ToLowerCase(pt))

\* C21: generateInsights emits one opt-in suggestion per heuristic of
\* lowValue, one review suggestion per template id other than none with 3
\* sessions or more and a rate under 70, one create-a-template suggestion
\* per project type other than unknown seen 3 times or more whose
\* lower-cased name no template id other than none holds, and no other
\* suggestion.
C21_SuggestionsExactly ==
  SuggestDone =>
    /\ \A key \in KeysOf(input) :
         SuggestionsOf("opt-in", key) = IF InValue(res.lowValue, key) THEN 1 ELSE 0
    /\ \A r \in 1..Len(input) :
         /\ SuggestionsOf("review", TemplateOf(input[r])) =
              IF ToReview(input, TemplateOf(input[r])) THEN 1 ELSE 0
         /\ SuggestionsOf("no-template", TypeOf(input[r])) =
              IF ToCreate(input, TypeOf(input[r])) THEN 1 ELSE 0
    /\ \A i \in 1..Len(res.suggestions) :
         LET s == res.suggestions[i]
         IN \/ s[1] = "opt-in" /\ s[2] \in KeysOf(input)
            \/ s[1] = "review" /\ \E r \in 1..Len(input) : s[2] = TemplateOf(input[r])
            \/ s[1] = "no-template" /\ \E r \in 1..Len(input) : s[2] = TypeOf(input[r])

\* Three sessions of the template node-api, one of them without items and
\* the others with a skipped item: the template is reviewed at rate 0, and
\* the type Node, served by it, gets no suggestion.
C21_Witness ==
  /\ SuggestDone
  /\ Len(input) = 3
  /\ \A r \in 1..3 : input[r].templateId = S_nodeApi
  /\ input[1].items = <<>>
  /\ input[2].items = << I_mcp(S_skipped) >>
  /\ input[3].items = << I_mcp(S_skipped) >>
  /\ res.suggestions = << <<"review", S_nodeApi, 0, 3>> >>

(***************************************************************************)
(* The names of headings                                                   *)
(***************************************************************************)

\* The text of a heading line behind its marker, trimmed.
HeadingText(line) == Trim(SliceFrom(Trim(line), Len(ScanMarker)))

HasUpper(s) == \E i \in 1..Len(s) : \E j \in 1..Len(UpperChars) : s[i] = UpperChars[j]

\* C22 as stated: both scans report each heading's name as the lower-cased,
\* trimmed heading text, so that headings differing by case only have the
\* same name.
C22_NamesLowerCased ==
  ScanDone =>
    \A k \in 1..Len(res) : res[k].name = ToLowerCase(HeadingText(res[k].fullMatch))

\* C22 amended: the section scan reports the lower-cased, trimmed heading
\* text, the subsection scan the trimmed heading text with its case kept.
C22_SectionNamesLowerCased ==
  ScanDone =>
    \A k \in 1..Len(res) :
      res[k].name = IF op = "findTopLevelSections"
                    THEN ToLowerCase(HeadingText(res[k].fullMatch))
                    ELSE HeadingText(res[k].fullMatch)

\* The subsection heading "### B c", indented, is reported under the name
\* "B c"; the lower-cased text is "b c".
C22_Witness ==
  /\ ScanDone
  /\ op = "findTopLevelSubsections"
  /\ input.lines = <<L_subA, L_subB>>
  /\ Len(res) = 2
  /\ res[2].name = <<"B", " ", "c">>
  /\ HasUpper(res[2].name)
  /\ res[2].name # ToLowerCase(res[2].name)

(***************************************************************************)
(* parseScalar                                                             *)
(***************************************************************************)

ScalarChars == {"\"", "'", "5", "0", "a"}

MaxScalarLen == 3

InitScalar ==
  /\ pc = "call"
  /\ op = "parseScalar"
  /\ input \in SeqsUpTo(ScalarChars, MaxScalarLen)
  /\ arg = input
  /\ res = <<>>

ParseScalar ==
  /\ pc = "call"
  /\ op = "parseScalar"
  /\ res' = parseScalar(arg)
  /\ pc' = "done"
  /\ UNCHANGED <<op, input, arg>>

NextScalar == ParseScalar

SpecScalar == InitScalar /\ [][NextScalar]_vars

ScalarDone == pc = "done" /\ op = "parseScalar"

\* The value opens and closes with the same quote character.
InMatchingQuotes(s) == Len(s) >= 2 /\ IsQuote(s[1]) /\ s[Len(s)] = s[1]

\* The value without the one pair of matching quotes around it.
WithoutPair(s) == IF InMatchingQuotes(s) THEN SubSeq(s, 2, Len(s) - 1) ELSE s

\* C23: parseScalar strips quotes only as one pair of matching leading and
\* trailing quote characters (a quote at one end only, or different quote
\* characters at the two ends, are kept), and returns an integer exactly
\* when the text left consists of one or more digits, otherwise the string.
C23_MatchingPairStripped ==
  ScalarDone =>
    res = IF AllDigits(WithoutPair(input))
          THEN IntV(DropZeros(WithoutPair(input)))
          ELSE StrV(WithoutPair(input))

\* The value 5" has a quote at its end only: the quote is stripped and the
\* integer 5 returned, where the string 5" was to be kept.
C23_LoneQuoteStripped ==
  /\ ScalarDone
  /\ input = <<"5", "\"">>
  /\ ~InMatchingQuotes(input)
  /\ res = IntV(<<"5">>)
  /\ res # StrV(input)

(***************************************************************************)
(* The line scan of parseFrontmatter, a line at a time                     *)
(***************************************************************************)

Y_deepKey == <<" "," "," "," ","k",":"," ","7">>

Y_deepOpen == <<" "," "," "," ","m",":">>

StepVocab ==
  {Y_id, Y_open, Y_nested, Y_item, Y_deepItem, Y_nestedInt, Y_deepKey, Y_deepOpen}

MaxStepLines == 4

\* arg is the number of lines the loop has taken, res the scan state.
InitFmStep ==
  /\ pc = "scan"
  /\ op = "parseFrontmatterScan"
  /\ input \in SeqsUpTo(StepVocab, MaxStepLines)
  /\ arg = 0
  /\ res = FmStart

\* One turn of the loop of lines 157-230.
FmStepLine ==
  /\ pc = "scan"
  /\ op = "parseFrontmatterScan"
  /\ arg < Len(input)
  /\ ~res.threw
  /\ res' = FmLine(res, input[arg + 1])
  /\ arg' = arg + 1
  /\ UNCHANGED <<op, input, pc>>

\* The loop ends: line 232 returns result, or the TypeError of line 189
\* has left the function.
FmStepReturn ==
  /\ pc = "scan"
  /\ op = "parseFrontmatterScan"
  /\ arg = Len(input) \/ res.threw
  /\ pc' = "done"
  /\ UNCHANGED <<op, input, arg, res>>

NextFmStep == FmStepLine \/ FmStepReturn

SpecFmStep == InitFmStep /\ [][NextFmStep]_vars

IsScalarValue(v) == Tag(v) \in {"str", "int"}

IsStringList(v) ==
  /\ Tag(v) = "list"
  /\ \A i \in 1..Len(Val(v)) : \A j \in 1..Len(Val(v)[i]) : Val(v)[i][j] \in STRING

IsFlatObject(v) ==
  /\ Tag(v) = "obj"
  /\ \A i \in 1..Len(Val(v)) : IsScalarValue(Val(v)[i].v) \/ IsStringList(Val(v)[i].v)

\* C24: at every step of the scan childKey is set only while parentKey is
\* set, and whenever childKey is set the value under parentKey is an
\* object that holds a list under childKey, so the push onto the nested
\* list never fails; every top-level value of the result is a scalar, a
\* list of strings, or an object whose values are scalars or lists of
\* strings.
C24_ScanStateConsistent ==
  op = "parseFrontmatterScan" =>
    /\ ~res.threw
    /\ res.childKey # <<>> =>
         /\ res.parentKey # <<>>
         /\ ObjHas(res.result, res.parentKey)
         /\ Tag(ObjGet(res.result, res.parentKey)) = "obj"
         /\ ObjHas(Val(ObjGet(res.result, res.parentKey)), res.childKey)
         /\ Tag(ObjGet(Val(ObjGet(res.result, res.parentKey)), res.childKey)) = "list"
    /\ \A i \in 1..Len(res.result) :
         \/ IsScalarValue(res.result[i].v)
         \/ IsStringList(res.result[i].v)
         \/ IsFlatObject(res.result[i].v)

\* d:, under it k: and a deeper item: after the third line the child key k
\* is open and the item has been pushed onto d.k.
C24_Witness ==
  /\ op = "parseFrontmatterScan"
  /\ input = <<Y_open, Y_nested, Y_deepItem, Y_item>>
  /\ arg = 3
  /\ res.parentKey = <<"d">>
  /\ res.childKey = <<"k">>
  /\ ObjGet(Val(ObjGet(res.result, <<"d">>)), <<"k">>) = ListV(<< <<"b">> >>)

(***************************************************************************)
(* mergeSettingsJson, once and again                                       *)
(***************************************************************************)

Hook(matcher, command) ==
  JObj(<< [k |-> S_matcher, v |-> JStr(matcher)], [k |-> S_command, v |-> JStr(command)] >>)

H_a == Hook(<<"W">>, <<"a">>)

H_b == Hook(<<"W">>, <<"b">>)

\* A hook without a matcher.
H_bare == JObj(<< [k |-> S_command, v |-> JStr(<<"a">>)] >>)

E_post == <<"P","o","s","t">>

E_pre == <<"P","r","e">>

MaxNewHooks == 2

\* template.hooks: the hooks of one event, of two events, and an event
\* whose value is no list.
NewHooks ==
  { JObj(<< [k |-> E_post, v |-> JArr(list)] >>) : list \in SeqsUpTo({H_a, H_b, H_bare}, MaxNewHooks) }
  \cup { JObj(<< [k |-> E_post, v |-> JArr(<<H_a>>)], [k |-> E_pre, v |-> JArr(<<H_a, H_a>>)] >>),
         JObj(<< [k |-> E_post, v |-> JStr(<<"x">>)], [k |-> E_pre, v |-> JArr(<<H_b>>)] >>) }

\* The settings file before the run, and the settings it stands for.
Settings(v) == [file |-> FileText(JsonStringify(v, <<>>)), kind |-> "json", value |-> v]

ExistingSettings ==
  { [file |-> NoFile, kind |-> "none", value |-> JObj(EmptyObj)],
    [file |-> FileText(<<>>), kind |-> "none", value |-> JObj(EmptyObj)],
    [file |-> FileText(<<"{","\"","P","o","s","t","\"",":"," ","[">>), kind |-> "broken", value |-> JObj(EmptyObj)],
    [file |-> FileText(<<"{","\"","P","o","s","t","\"",":","[","]",",","\"","n","\"",":","1","}">>), kind |-> "json",
     value |-> JObj(<< [k |-> E_post, v |-> JArr(<<>>)], [k |-> <<"n">>, v |-> JNum(<<"1">>)] >>)],
    [file |-> FileText(<<"n","u","l","l">>), kind |-> "null", value |-> JLit(JsonNull)],
    Settings(JObj(EmptyObj)),
    Settings(JObj(<< [k |-> E_post, v |-> JArr(<<H_a>>)] >>)),
    Settings(JObj(<< [k |-> <<"n">>, v |-> JNum(<<"1">>)], [k |-> E_post, v |-> JArr(<<H_b, H_a, H_b>>)] >>)),
    Settings(JObj(<< [k |-> E_pre, v |-> JArr(<<H_bare>>)] >>)) }

InitMerge ==
  /\ pc = "call"
  /\ op = "mergeSettingsJson"
  /\ input \in [existing : ExistingSettings, hooks : NewHooks]
  /\ arg = input.existing.file
  /\ res = <<>>

\* One run: the settings file is read and mergeSettingsJson makes the text
\* that is written to it (init.mjs:101-107, 172-175). A throw ends the run.
MergeSettings ==
  /\ pc \in {"call", "merged"}
  /\ op = "mergeSettingsJson"
  /\ \E r \in {mergeSettingsJson(arg, input.hooks)} :
       /\ res' = Append(res, r)
       /\ arg' = IF r.threw THEN arg ELSE FileText(r.text)
       /\ pc' = IF r.threw THEN "done" ELSE IF pc = "call" THEN "merged" ELSE "done"
  /\ UNCHANGED <<op, input>>

NextMerge == MergeSettings

SpecMerge == InitMerge /\ [][NextMerge]_vars

HookPair(h) == <<JsonProp(h, S_matcher), JsonProp(h, S_command)>>

\* The hook list of an event in settings, empty where there is none.
HooksOf(settings, event) ==
  IF Tag(JsonProp(settings, event)) = "arr" THEN Val(JsonProp(settings, event)) ELSE <<>>

\* The settings a merged text stands for.
MergedSettings(r) == JsonParse(r.text).val

\* C25: mergeSettingsJson is idempotent and free of duplicates: merging
\* the same hooks into its own result gives the result again; the hooks of
\* the existing settings stay, in their order, ahead of the added ones; a
\* hook whose pair of matcher and command is present under the event is not
\* added; existing text that does not parse is taken as empty settings.
C25_MergeIdempotent ==
  (op = "mergeSettingsJson" /\ Len(res) >= 1) =>
    /\ res[1].threw <=> (input.existing.kind = "null" /\ HasList(JsonEntries(input.hooks)))
    /\ input.existing.kind = "broken" => res[1] = mergeSettingsJson(NoFile, input.hooks)
    /\ ~res[1].threw =>
         LET before == input.existing.value
             after == MergedSettings(res[1])
         IN /\ JsonParse(res[1].text).ok
            /\ \A i \in 1..Len(JsonEntries(before)) :
                 LET e == JsonEntries(before)[i]
                 IN Tag(JsonProp(input.hooks, e.k)) # "arr" => JsonProp(after, e.k) = e.v
            /\ \A i \in 1..Len(JsonEntries(input.hooks)) :
                 LET e == JsonEntries(input.hooks)[i]
                     old == HooksOf(before, e.k)
                     new == HooksOf(after, e.k)
                     added == SubSeq(new, Len(old) + 1, Len(new))
                 IN Tag(e.v) = "arr" =>
                      /\ Len(new) >= Len(old)
                      /\ SubSeq(new, 1, Len(old)) = old
                      /\ \A a \in 1..Len(added) :
                           /\ \E h \in 1..Len(Val(e.v)) : Val(e.v)[h] = added[a]
                           /\ \A o \in 1..Len(old) : HookPair(old[o]) # HookPair(added[a])
                           /\ \A b \in 1..Len(added) :
                                HookPair(added[b]) = HookPair(added[a]) => a = b
                      /\ \A h \in 1..Len(Val(e.v)) :
                           \E n \in 1..Len(new) : HookPair(new[n]) = HookPair(Val(e.v)[h])
    /\ Len(res) = 2 => res[2] = res[1]

\* The hooks W:a and W:b merged into settings that hold W:b, W:a, W:b:
\* nothing is added, the first time and the second.
C25_Witness ==
  /\ op = "mergeSettingsJson"
  /\ pc = "done"
  /\ Len(res) = 2
  /\ input.hooks = JObj(<< [k |-> E_post, v |-> JArr(<<H_a, H_b>>)] >>)
  /\ HooksOf(input.existing.value, E_post) = <<H_b, H_a, H_b>>
  /\ HooksOf(MergedSettings(res[2]), E_post) = <<H_b, H_a, H_b>>

\* The hooks W:a and W:a of an event merged into empty settings: one is
\* added, and none the second time.
C25_AddedOnce ==
  /\ op = "mergeSettingsJson"
  /\ pc = "done"
  /\ Len(res) = 2
  /\ input.existing.kind = "broken"
  /\ HooksOf(MergedSettings(res[2]), E_pre) = <<H_a>>

(***************************************************************************)
(* init, run after run on one directory                                    *)
(***************************************************************************)

\* A template that holds guidance only.
T_brief ==
  [meta |-> M_full, claude_md |-> <<"b","e"," ","b","r","i","e","f">>, hooks |-> JObj(EmptyObj), skills |-> EmptyObj,
   agents |-> EmptyObj, mcp_servers |-> JObj(EmptyObj), external_skills |-> <<>>]

\* The directory after a run, notes then written under the attribution.
W_edited ==
  [files |-> << Member(P_claudeMd, <<"#"," ","T",NL,NL,"o","l","d"," ","t","e","x","t",NL,NL>> \o ATTRIBUTION \o <<"m","y"," ","n","o","t","e","s",NL>>) >>,
   claudeDir |-> FALSE]

RunTemplates == {T_full, T_brief}

RunWorlds == {W_empty, W_prior, W_broken, W_edited}

MaxRuns == 3

\* input.world is the directory at the start of the run, input.start the
\* one at the start of the first run.
InitRuns ==
  /\ pc = "call"
  /\ op = "init"
  /\ input \in [flags : {[list |-> FALSE, templateId |-> TRUE, dryRun |-> FALSE, force |-> TRUE]},
                found : {TRUE}, template : RunTemplates, world : RunWorlds,
                answer : {TRUE}, sessionId : {<<"s","1">>}, failAt : {0},
                saveFails : BOOLEAN, run : {1}, start : RunWorlds]
  /\ input.start = input.world
  /\ arg = input.world
  /\ res = <<>>

\* The next run of init on the directory as the last one left it.
InitAgain ==
  /\ pc = "done"
  /\ op = "init"
  /\ input.run < MaxRuns
  /\ \E t \in RunTemplates :
       input' = [input EXCEPT !.template = t, !.world = arg, !.run = @ + 1]
  /\ pc' = "call"
  /\ res' = <<>>
  /\ UNCHANGED <<op, arg>>

NextRuns == InitPlan \/ InitWrite \/ InitFeedback \/ InitAgain

SpecRuns == InitRuns /\ [][NextRuns]_vars

\* The places of text where the attribution block opens.
BlockStarts(text) ==
  {i \in 1..(Len(text) - Len(AttributionMark) + 1) :
     SubSeq(text, i, i + Len(AttributionMark) - 1) = AttributionMark}

\* text without the attribution block at its end, where it ends with one.
WithoutEndBlock(text) ==
  IF EndsWith(text, ATTRIBUTION) THEN SubSeq(text, 1, Len(text) - Len(ATTRIBUTION))
  ELSE text

\* A run has written CLAUDE.md and ended.
RunDone ==
  /\ op = "init"
  /\ pc = "done"
  /\ res.out = "done"
  /\ input.template.claude_md # <<>>

\* C26: after every run of init that is no dry run, CLAUDE.md holds the
\* attribution block once, as its last lines, and what the file held
\* before the run, less an attribution block at its end, opens the new
\* content.
C26_AttributionOnceAtEnd ==
  RunDone =>
    LET new == ObjGet(arg.files, P_claudeMd)
        old == ReadFile(input.world, P_claudeMd)
    IN /\ Cardinality(BlockStarts(new)) = 1
       /\ EndsWith(new, ATTRIBUTION)
       /\ old.found => StartsWith(new, WithoutEndBlock(old.text))

\* The first run on a directory whose CLAUDE.md holds notes under an
\* attribution block: the block stays where it was and a second one is
\* written at the end.
C26_TwoBlocks ==
  /\ RunDone
  /\ input.run = 1
  /\ input.world = W_edited
  /\ input.template = T_brief
  /\ Cardinality(BlockStarts(ObjGet(arg.files, P_claudeMd))) = 2
  /\ EndsWith(ObjGet(arg.files, P_claudeMd), ATTRIBUTION)

\* The three parts of C26 on the directories that hold no text under an
\* attribution block.
C26_OnceWhereBlockIsLast ==
  (RunDone /\ input.start # W_edited) =>
    LET new == ObjGet(arg.files, P_claudeMd)
        old == ReadFile(input.world, P_claudeMd)
    IN /\ Cardinality(BlockStarts(new)) = 1
       /\ EndsWith(new, ATTRIBUTION)
       /\ old.found => StartsWith(new, WithoutEndBlock(old.text))

(***************************************************************************)
(* Item tallies                                                            *)
(***************************************************************************)

RECURSIVE SumTemplateItems(_, _)
SumTemplateItems(byTemplate, i) ==
  IF i = 0 THEN 0 ELSE SumTemplateItems(byTemplate, i - 1) + byTemplate[i].v.totalItems

RECURSIVE SumTotals(_, _)
SumTotals(byHeuristic, i) ==
  IF i = 0 THEN 0 ELSE SumTotals(byHeuristic, i - 1) + byHeuristic[i].v.total

\* The items of the first r records.
RECURSIVE ItemCount(_, _)
ItemCount(records, r) ==
  IF r = 0 THEN 0 ELSE ItemCount(records, r - 1) + Len(records[r].items)

\* Two objects with the same keys and the same value under each key.
SameEntries(a, b) ==
  /\ Len(a) = Len(b)
  /\ \A i \in 1..Len(a) : ObjHas(b, a[i].k) /\ ObjGet(b, a[i].k) = a[i].v

\* Two aggregates with the same tallies under the same keys.
SameAggregate(a, b) ==
  /\ a.totalSessions = b.totalSessions
  /\ a.totalItems = b.totalItems
  /\ a.overallApprovalRate = b.overallApprovalRate
  /\ SameEntries(a.byHeuristic, b.byHeuristic)
  /\ SameEntries(a.byTemplate, b.byTemplate)
  /\ SameEntries(a.projectTypes, b.projectTypes)

\* records with the records at i and j in each other's place.
Swapped(records, i, j) ==
  [k \in 1..Len(records) |->
     IF k = i THEN records[j] ELSE IF k = j THEN records[i] ELSE records[k]]

KnownStatus(item) == item.status \in {S_approved, S_skipped, S_modified}

\* C27: totalItems is the sum of the totalItems of byTemplate and the sum
\* of the totals of byHeuristic; in every heuristic approved + skipped +
\* modified <= total, with equality when every item's status is one of the
\* three; the tallies are the same for the records in any other order
\* (every order is reached by exchanging two records at a time).
C27_TalliesConserved ==
  AggDone =>
    /\ res.totalItems = ItemCount(input, Len(input))
    /\ SumTemplateItems(res.byTemplate, Len(res.byTemplate)) = res.totalItems
    /\ SumTotals(res.byHeuristic, Len(res.byHeuristic)) = res.totalItems
    /\ \A i \in 1..Len(res.byHeuristic) :
         LET h == res.byHeuristic[i].v
         IN /\ h.approved + h.skipped + h.modified <= h.total
            /\ (\A r \in 1..Len(input) : \A k \in 1..Len(input[r].items) :
                  KnownStatus(input[r].items[k]))
                 => h.approved + h.skipped + h.modified = h.total
    /\ \A i, j \in 1..Len(input) :
         i < j => SameAggregate(aggregateFeedback(Swapped(input, i, j)), res)

\* A session of a template with a pending item, then one without a
\* template: three heuristics, one of them with a status that is none of
\* the three, and the tallies do not depend on the order, though the order
\* of the keys does.
C27_Witness ==
  /\ AggDone
  /\ Len(input) = 2
  /\ input[1].templateId = <<"t","1">>
  /\ input[1].items = << I_mcp(S_modified), I_bare(<<"p","e","n","d","i","n","g">>), I_hook(S_skipped) >>
  /\ input[2].templateId = <<>>
  /\ input[2].items = << I_hook(S_approved), I_mcp(S_skipped) >>
  /\ res.totalItems = 5
  /\ Len(res.byHeuristic) = 3
  /\ \E i \in 1..3 : res.byHeuristic[i].v.approved + res.byHeuristic[i].v.skipped
                       + res.byHeuristic[i].v.modified < res.byHeuristic[i].v.total
  /\ aggregateFeedback(Swapped(input, 1, 2)).byHeuristic # res.byHeuristic

(***************************************************************************)
(* saveUserTemplate (src/src/template-generator.mjs)                       *)
(***************************************************************************)

\* The text a new index starts with (lines 178-186).
UserIndexHeader == <<"#"," ","U","s","e","r"," ","T","e","m","p","l","a","t","e","s",NL,NL,"G","e","n","e","r","a","t","e","d"," ","f","r","o","m"," ","s","u","c","c","e","s","s","f","u","l"," ","a","n","a","l","y","s","e","s","."," ","U","s","e"," ","w","i","t","h"," ",BT,"a","g","e","n","t","i","c","-","r","i","g"," ","i","n","i","t"," ","<","t","e","m","p","l","a","t","e",">",BT,".",NL,NL,"|"," ","I","D"," ","|"," ","N","a","m","e"," ","|"," ","D","e","s","c","r","i","p","t","i","o","n"," ","|"," ","F","i","l","e"," ","|",NL,"|","-","-","-","-","|","-","-","-","-","-","-","|","-","-","-","-","-","-","-","-","-","-","-","-","-","|","-","-","-","-","-","-","|",NL>>

\* `| ${templateId} |`
IdPattern(templateId) == <<"|", " ">> \o templateId \o <<" ", "|">>

\* `| ${templateId} | ${meta.name} | ${meta.description} | ${templateId}.md |`
UserIndexRow(templateId, meta) ==
  RowText(<< templateId, meta.name, meta.description,
             templateId \o <<".", "m", "d">> >>, 1)

\* updateUserIndex (lines 174-205): index is what readFileIfExists gives,
\* the result is the text written to _index.md.
updateUserIndex(index, templateId, meta) ==
  LET existing == IF ~index.exists \/ index.content = <<>>
                  THEN UserIndexHeader ELSE index.content
      row == UserIndexRow(templateId, meta)
  IN IF IncludesText(existing, IdPattern(templateId))
     THEN Apply(LAMBDA lines :
                  Join([i \in 1..Len(lines) |->
                          IF IncludesText(lines[i], IdPattern(templateId))
                          THEN row ELSE lines[i]], NL),
                Split(existing, NL))
     ELSE TrimEnd(existing) \o <<NL>> \o row \o <<NL>>

UserTemplatePath(templateId) == templateId \o <<".", "m", "d">>

\* saveUserTemplate (lines 158-169) on the user templates directory dir:
\* the template file, then the index; the path of the file is returned.
saveUserTemplate(dir, templateId, content, meta) ==
  [dir |-> [files |-> ObjPut(dir.files, UserTemplatePath(templateId), content),
            index |-> [exists |-> TRUE,
                       content |-> updateUserIndex(dir.index, templateId, meta)]],
   filePath |-> UserTemplatePath(templateId)]

UserTemplateIds == { <<"a">>, <<"b">> }

\* Names and descriptions; b is also an id.
SaveNames == { <<"A">>, <<"b">> }

SaveDescriptions == { <<"d", " ", "1">>, <<"d", " ", "2">> }

SaveContent(meta) == <<"#", " ">> \o meta.name \o <<NL>>

MaxIndexSaves == 3

\* A directory without an index, or with an empty one.
InitUserIndex ==
  /\ pc = "idle"
  /\ op = "saveUserTemplate"
  /\ input = <<>>
  /\ arg \in { [files |-> <<>>, index |-> [exists |-> e, content |-> <<>>]] :
               e \in BOOLEAN }
  /\ res = <<>>

\* One call; input keeps the calls made so far.
SaveUserTemplate ==
  /\ op = "saveUserTemplate"
  /\ pc = "idle"
  /\ Len(input) < MaxIndexSaves
  /\ \E id \in UserTemplateIds, n \in SaveNames, d \in SaveDescriptions :
       LET meta == [id |-> id, name |-> n, description |-> d]
           r == saveUserTemplate(arg, id, SaveContent(meta), meta)
       IN /\ arg' = r.dir
          /\ res' = r.filePath
          /\ input' = Append(input, [id |-> id, meta |-> meta])
  /\ UNCHANGED <<op, pc>>

NextUserIndex == SaveUserTemplate

SpecUserIndex == InitUserIndex /\ [][NextUserIndex]_vars

\* The entries of the index as listTemplates reads them.
UserIndexEntries == parseIndex(arg.index.content)

\* The last call for an id among the calls made.
LastSave(id) ==
  input[CHOOSE i \in 1..Len(input) :
          input[i].id = id /\ \A j \in (i + 1)..Len(input) : input[j].id # id]

SavedTemplateIds == { input[i].id : i \in 1..Len(input) }

EntryOf(id, meta) ==
  [id |-> id, name |-> meta.name, description |-> meta.description,
   file |-> UserTemplatePath(id)]

\* C28 as stated: after any sequence of saveUserTemplate calls the index
\* holds exactly one row for each saved id, the row of the last save of
\* that id, and no other rows: a save for an id replaces that id's row and
\* leaves the row of every other id as it was.
C28_OneRowPerSavedId ==
  (op = "saveUserTemplate" /\ input # <<>>) =>
    /\ \A id \in SavedTemplateIds :
         Cardinality({ i \in 1..Len(UserIndexEntries) :
                         UserIndexEntries[i].id = id }) = 1
    /\ \A i \in 1..Len(UserIndexEntries) :
         /\ UserIndexEntries[i].id \in SavedTemplateIds
         /\ UserIndexEntries[i] =
              EntryOf(UserIndexEntries[i].id, LastSave(UserIndexEntries[i].id).meta)

\* Template a saved under the name b, then template b saved: the index
\* holds the row of b alone, and a.md is still in the directory.
C28_RowOfOtherIdReplaced ==
  /\ op = "saveUserTemplate"
  /\ Len(input) = 2
  /\ input[1].id = <<"a">>
  /\ input[1].meta.name = <<"b">>
  /\ input[2].id = <<"b">>
  /\ Len(UserIndexEntries) = 1
  /\ UserIndexEntries[1].id = <<"b">>
  /\ ObjHas(arg.files, UserTemplatePath(<<"a">>))

\* No name or description saved so far is an id saved so far.
CellsApartFromIds ==
  \A i \in 1..Len(input) :
    /\ input[i].meta.name \notin SavedTemplateIds
    /\ input[i].meta.description \notin SavedTemplateIds

\* Where no saved name or description is a saved id, the index holds one
\* row for each saved id, that of its last save.
C28_OneRowWhereCellsDiffer == CellsApartFromIds => C28_OneRowPerSavedId

(***************************************************************************)
(* The scores and the insights of one record list                          *)
(***************************************************************************)

MaxAgreeRecords == 3

InitAgree ==
  /\ pc = "call"
  /\ op = "scoresAndInsights"
  /\ input \in SeqsUpTo(SuggestRecords, MaxAgreeRecords)
  /\ arg = input
  /\ res = [scores |-> EmptyObj, suggestions |-> <<>>]

\* getAllTemplateScores on the records.
AgreeScores ==
  /\ pc = "call"
  /\ op = "scoresAndInsights"
  /\ res' = [res EXCEPT !.scores = getAllTemplateScores(arg)]
  /\ pc' = "scored"
  /\ UNCHANGED <<op, input, arg>>

\* generateInsights on the same records.
AgreeInsights ==
  /\ pc = "scored"
  /\ op = "scoresAndInsights"
  /\ res' = [res EXCEPT !.suggestions = generateInsights(arg).suggestions]
  /\ pc' = "done"
  /\ UNCHANGED <<op, input, arg>>

NextAgree == AgreeScores \/ AgreeInsights

SpecAgree == InitAgree /\ [][NextAgree]_vars

AgreeDone == pc = "done" /\ op = "scoresAndInsights"

Reviewed(tid) ==
  \E i \in 1..Len(res.suggestions) :
    res.suggestions[i][1] = "review" /\ res.suggestions[i][2] = tid

\* C29: for any record list, every template id other than none whose
\* computeTemplateScore tier is needs-review also receives a review
\* suggestion from generateInsights on the same records.  The last
\* conjunct compares the two tests at every rate and session count, on
\* the tallies of 100 items; it does not depend on the records and is
\* evaluated at one state.
C29_NeedsReviewIsReviewed ==
  AgreeDone =>
    /\ \A i \in 1..Len(res.scores) :
         res.scores[i].v.tier = "needs-review" => Reviewed(res.scores[i].k)
    /\ \A r \in 1..Len(input) :
         LET tid == TemplateOf(input[r])
             stats == [sessions |-> TemplateSessions(input, tid),
                       totalItems |-> TemplateItems(input, tid, FALSE, Len(input)),
                       approved |-> TemplateItems(input, tid, TRUE, Len(input))]
         IN (tid # S_none /\ computeTemplateScore(tid, stats).tier = "needs-review")
              => Reviewed(tid)
    /\ input = <<>> => \A rate \in Rates, sessions \in SessionCounts :
         LET stats == [sessions |-> sessions, totalItems |-> 100, approved |-> rate]
         IN /\ computeTemplateScore(S_nodeApi, stats).approvalRate = rate
            /\ computeTemplateScore(S_nodeApi, stats).tier = "needs-review"
                 => NeedsReview([k |-> S_nodeApi, v |-> stats])

\* Three sessions of node-api with one item each, one of them approved:
\* rate 33, tier needs-review, and a review suggestion.
C29_Witness ==
  /\ AgreeDone
  /\ Len(input) = 3
  /\ \A r \in 1..3 : input[r].templateId = S_nodeApi
  /\ input[1].items = << I_mcp(S_approved) >>
  /\ input[2].items = << I_mcp(S_skipped) >>
  /\ input[3].items = << I_mcp(S_skipped) >>
  /\ ObjGet(res.scores, S_nodeApi).tier = "needs-review"
  /\ ObjGet(res.scores, S_nodeApi).approvalRate = 33
  /\ Reviewed(S_nodeApi)

\* Two of three items approved: rate 67, tier acceptable, and a review
\* suggestion all the same.
C29_ReviewedYetAcceptable ==
  /\ AgreeDone
  /\ ObjHas(res.scores, S_nodeApi)
  /\ ObjGet(res.scores, S_nodeApi).tier = "acceptable"
  /\ ObjGet(res.scores, S_nodeApi).approvalRate = 67
  /\ Reviewed(S_nodeApi)

(***************************************************************************)
(* init: the record and the files                                          *)
(***************************************************************************)

\* The record of the run is in the directory.
RecordSaved == ObjHas(arg.files, FeedbackPath(input.sessionId))

\* Every planned file is in the directory with the planned content.
AllPlannedWritten ==
  \A i \in 1..Len(res.plan) :
    /\ ObjHas(arg.files, res.plan[i].path)
    /\ ObjGet(arg.files, res.plan[i].path) = res.plan[i].content

\* The directory after the first n planned writes.
RECURSIVE AfterWrites(_, _, _)
AfterWrites(world, plan, n) ==
  IF n = 0 THEN world
  ELSE writeFileWithDir(AfterWrites(world, plan, n - 1), plan[n].path, plan[n].content)

\* The save of the record fails, or the record cannot be built.
SaveGivenUp == buildFeedbackItems(input.template).threw \/ input.saveFails

\* C30: in one init run the record is saved only after every planned file
\* has been written; a run that ends at the missing-template exit, at the
\* dry-run stop or at a declined prompt writes no file and saves no record;
\* a failure while saving the record leaves the written files as they are
\* and the run ends as a run that saved: a run throws only before its
\* last write.
C30_RecordAfterAllFiles ==
  (op = "init" /\ pc # "call") =>
    /\ RecordSaved =>
         /\ pc = "done"
         /\ res.out = "done"
         /\ res.written = Len(res.plan)
         /\ AllPlannedWritten
    /\ (pc = "done" /\ res.out \in {"exit", "dry-run", "aborted"}) =>
         /\ arg = input.world
         /\ res.written = 0
         /\ ~RecordSaved
    /\ (pc = "done" /\ res.out = "done") =>
         /\ res.written = Len(res.plan)
         /\ AllPlannedWritten
         /\ RecordSaved <=> ~SaveGivenUp
         /\ SaveGivenUp => arg = AfterWrites(input.world, res.plan, Len(res.plan))
    /\ (pc = "done" /\ res.out = "threw") =>
         /\ ~RecordSaved
         /\ res.plan = <<>> => arg = input.world
         /\ res.plan # <<>> => res.written < Len(res.plan)

\* The full template over the files of an earlier run, the save of the
\* record failing: five files written, no record, and the run is done.
C30_Witness ==
  /\ op = "init"
  /\ pc = "done"
  /\ input.template = T_full
  /\ input.world = W_prior
  /\ input.saveFails
  /\ res.out = "done"
  /\ res.written = 5
  /\ AllPlannedWritten
  /\ ~RecordSaved

\* The same run with the save succeeding: the record is there.
C30_Saved ==
  /\ op = "init"
  /\ pc = "done"
  /\ input.template = T_full
  /\ input.world = W_prior
  /\ res.out = "done"
  /\ res.written = 5
  /\ RecordSaved

====
